---- MODULE Spec2Model ----
(***************************************************************************)
(* A model of oxker's input coordinator (src/src/input_handler/mod.rs):    *)
(* the message loop of InputHandler::start, the modal dispatch of          *)
(* InputHandler::button_press and mouse_press, the sort toggle, the        *)
(* mouse-capture toggle with its cancellable banner timer, and the         *)
(* dispatch of container commands.  One step of the model is one           *)
(* acquisition of a store's lock (or one operation on a channel, a task    *)
(* handle or the atomic running flag), so that the runtime driver and the  *)
(* banner timer tasks interleave with the handler as they do on a          *)
(* multi-threaded executor.                                                *)
(*                                                                         *)
(* AppData, GuiState and the runtime driver live in other modules of the   *)
(* crate; the fields and methods the handler uses are modelled after their *)
(* contract.                                                               *)
(***************************************************************************)
EXTENDS Integers, Sequences, FiniteSets, TLC

VARIABLES
    \* AppData (behind app_data: Arc<Mutex<AppData>>)
    show_error,       \* AppData::show_error
    error,            \* AppData::error : Option<AppError>
    sorted_by,        \* AppData::sorted_by : Option<(Header, SortedOrder)>
    containers,       \* AppData::containers items: Seq of [id, st, cmd]
    cont_sel,         \* cursor of the container list, 0 = nothing selected
    log_len,          \* number of log lines of the selected container
    log_sel,          \* cursor of the log view, 0 = nothing selected
    \* GuiState (behind gui_state: Arc<Mutex<GuiState>>)
    show_help,        \* GuiState::show_help
    selected_panel,   \* GuiState::selected_panel
    info_box,         \* GuiState::info_box_text : Option<text>
    \* InputHandler
    pc,               \* position of InputHandler::start / button_press
    msg,              \* the message being handled
    loc_show_error,   \* local show_error of button_press / start
    loc_show_info,    \* local show_info of button_press / start
    option_command,   \* local option_command of the Enter branch
    option_id,        \* local option_id of the Enter branch
    header_intersects,\* local header_intersects of mouse_press
    send_result,      \* what docker_sender.send(..).await returned
    page_i,           \* loop counter of the PageUp / PageDown branch
    mouse_capture,    \* InputHandler::mouse_capture
    info_sleep,       \* InputHandler::info_sleep : Option<JoinHandle>, 0 = None
    is_running,       \* the shared AtomicBool
    \* the tokio tasks spawned by m_button, the clock, the command channel
    timers,           \* Seq of [st, due]: one task per toggle
    now,              \* time, in units of 1000 ms
    docker_chan,      \* messages buffered in docker_sender's channel
    docker_closed,    \* the channel's receiver has been dropped
    \* history
    handled,          \* messages received so far (counted where bounded)
    toggle_log,       \* per call of m_button: [ok, txt, at]
    info_by,          \* the toggle whose banner info_box holds, 0 = none
    clears,           \* banner-clear events: Seq of [timer, at, gen]
    nav_from,         \* the three cursors as they were when msg was received
    \* GuiState, the overlays the render loop reads
    status_exec,      \* Status::Exec is in GuiState::status
    exec_mode,        \* what GuiState::get_exec_mode returns, None or a mode
    delete_container, \* GuiState::delete_container : Option<ContainerId>, 0 = None
    status_connect,   \* Status::DockerConnect is in GuiState::status
    area_map,         \* GuiState's cached hit-test regions: "empty" or "cached"
    \* Ui and the terminal device
    term,             \* the terminal: [raw, alt, mouse]
    ui,               \* Ui::start / gui_loop / exec: position, locals, history
    input_chan        \* messages buffered in input_tx's channel

cursorVars == <<containers, cont_sel, log_len, log_sel>>
appVars == <<show_error, error, sorted_by, cursorVars>>
guiVars == <<show_help, selected_panel, info_box, info_by>>
locVars == <<msg, loc_show_error, loc_show_info, option_command, option_id,
             header_intersects, send_result, page_i>>
timerVars == <<timers, info_sleep, toggle_log, clears>>
chanVars == <<docker_chan, docker_closed>>
overlayVars == <<status_exec, exec_mode, delete_container, status_connect, area_map>>
loopVars == <<ui, overlayVars, input_chan>>
uiVars == <<term, loopVars>>
coordVars == <<pc, locVars, mouse_capture, timerVars, now, chanVars, handled, nav_from>>
vars == <<appVars, guiVars, pc, locVars, mouse_capture, is_running, timerVars,
          now, chanVars, handled, nav_from, uiVars>>

----------------------------------------------------------------------------
(* Bounds of the model *)

MaxMsgs == 2
MaxToggles == 3
MaxTime == 5
MaxContainers == 1
DockerCap == 1
MaxItems == 8
InputCap == 1
MaxExecs == 1

(* Program constants *)

\* tokio::time::sleep(Duration::from_millis(4000)), in units of 1000 ms
InfoDelay == 4
\* for _ in 0..=6
PageSteps == 7
\* let mut seconds = 5, the countdown of err_loop
ErrSeconds == 5

----------------------------------------------------------------------------
(* Types *)

None == "None"
NoId == 0
NoSort == <<None, None>>

Headers == <<"State", "Status", "Cpu", "Memory", "Id", "Name", "Image", "Rx", "Tx">>
HeaderSet == {Headers[i] : i \in 1..Len(Headers)}

Desc == "Desc"
Asc == "Asc"

Panels == {"Containers", "Logs", "Commands"}

States == {"Running", "Paused", "Exited"}

\* DockerControls::gen_vec: the commands offered for a container state
ControlsOf(st) ==
    CASE st = "Running" -> <<"Pause", "Restart", "Stop">>
      [] st = "Paused" -> <<"Unpause", "Stop">>
      [] OTHER -> <<"Start", "Restart">>

\* KeyCode values: the ones button_press names, and one it does not ("Esc")
SortKeys == {"1", "2", "3", "4", "5", "6", "7", "8", "9"}
KeyCodes == SortKeys \cup {"0", "q", "h", "m", "c", "j", "k", "Tab", "BackTab",
                           "Home", "End", "Up", "Down", "PageUp", "PageDown",
                           "Enter", "Esc"}

\* MouseEventKind values that reach the handler, and one it ignores
MouseKinds == {"ScrollUp", "ScrollDown", "DownLeft", "DownRight"}

\* Screen positions of a click: 1..9 lie on the header of that column (inside
\* the containers panel), 10..12 in the body of a panel, 0 outside of all.
Positions == 0..12

NoMsg == [kind |-> "none", code |-> None, pos |-> 0]
KeyMsg(k) == [kind |-> "key", code |-> k, pos |-> 0]
MouseMsg(k, p) == [kind |-> "mouse", code |-> k, pos |-> p]

AllKeyMsgs == {KeyMsg(k) : k \in KeyCodes}
AllMouseMsgs ==
    {MouseMsg("DownLeft", p) : p \in Positions}
        \cup {MouseMsg(k, 0) : k \in MouseKinds \ {"DownLeft"}}

\* crossterm::event::Event values: a key event with its KeyEventKind, a mouse
\* event with its MouseEventKind, a resize, and the others (focus, paste)
KeyEventKinds == {"Press", "Release", "Repeat"}
MouseEventKinds == {"DownLeft", "DownRight", "DownMiddle", "UpLeft", "DragLeft",
                    "Moved", "ScrollDown", "ScrollUp", "ScrollLeft", "ScrollRight"}
NoEvent == [kind |-> "none", code |-> None, sub |-> None, pos |-> 0]
KeyEvent(k, s) == [kind |-> "key", code |-> k, sub |-> s, pos |-> 0]
MouseEvent(k, p) == [kind |-> "mouse", code |-> k, sub |-> None, pos |-> p]
ResizeEvent == [kind |-> "resize", code |-> None, sub |-> None, pos |-> 0]
FocusEvent == [kind |-> "focus", code |-> None, sub |-> None, pos |-> 0]

----------------------------------------------------------------------------
(* AppData and GuiState: the methods the handler calls *)

\* Mutex::lock() on app_data / gui_state returns once the lock is free.  The
\* input handler, the timer tasks and the driver take and release a lock
\* within one step; the render loop holds a lock over several: ui.locks
\* and the handler, in next / previous and the Home and End arms, holds the
\* guard of app_data while it takes the lock of gui_state: HandlerLocks
HandlerLocks == IF pc = "nav_gui" THEN {"app"} ELSE {}

AppFree == "app" \notin ui.locks \cup HandlerLocks
GuiFree == "gui" \notin ui.locks \cup HandlerLocks

\* StatefulList::next / previous / start / end on a cursor over len items
ListNext(sel, len) ==
    IF len = 0 THEN sel ELSE IF sel = 0 THEN 1 ELSE IF sel < len THEN sel + 1 ELSE sel
ListPrevious(sel, len) ==
    IF len = 0 THEN sel ELSE IF sel = 0 THEN 1 ELSE IF sel > 1 THEN sel - 1 ELSE sel
ListStart(sel, len) == IF len = 0 THEN sel ELSE 1
ListEnd(sel, len) == IF len = 0 THEN sel ELSE len

Move(dir, sel, len) ==
    CASE dir = "next" -> ListNext(sel, len)
      [] dir = "previous" -> ListPrevious(sel, len)
      [] dir = "start" -> ListStart(sel, len)
      [] OTHER -> ListEnd(sel, len)

\* AppData::get_docker_command: the highlighted command of the selected container
get_docker_command ==
    IF cont_sel = 0 \/ cont_sel > Len(containers) THEN None
    ELSE LET c == containers[cont_sel]
         IN IF c.cmd = 0 THEN None ELSE ControlsOf(c.st)[c.cmd]

\* AppData::get_selected_container_id
get_selected_container_id ==
    IF cont_sel = 0 \/ cont_sel > Len(containers) THEN NoId ELSE containers[cont_sel].id

\* AppData::set_error: store the error and raise the error flag
set_error(e) == AppFree /\ error' = e /\ show_error' = TRUE

\* AppData::remove_error
remove_error == AppFree /\ error' = None

\* containers.{next,previous,start,end}(), log_{...}(), docker_command_{...}()
containers_move(dir) ==
    /\ cont_sel' = Move(dir, cont_sel, Len(containers))
    /\ UNCHANGED <<containers, log_len, log_sel>>
log_move(dir) ==
    /\ log_sel' = Move(dir, log_sel, log_len)
    /\ UNCHANGED <<containers, cont_sel, log_len>>
docker_command_move(dir) ==
    /\ containers' =
          IF cont_sel = 0 \/ cont_sel > Len(containers) THEN containers
          ELSE [containers EXCEPT ![cont_sel].cmd =
                    Move(dir, @, Len(ControlsOf(containers[cont_sel].st)))]
    /\ UNCHANGED <<cont_sel, log_len, log_sel>>

\* SelectablePanel::next / previous, behind GuiState::next_panel / previous_panel
next_panel(p) ==
    CASE p = "Containers" -> "Commands"
      [] p = "Commands" -> "Logs"
      [] OTHER -> "Containers"
previous_panel(p) ==
    CASE p = "Containers" -> "Logs"
      [] p = "Logs" -> "Commands"
      [] OTHER -> "Containers"

\* GuiState::header_intersect: the header whose cached region holds the click
header_intersect(pos) == IF pos \in 1..Len(Headers) THEN Headers[pos] ELSE None

\* GuiState::panel_intersect: select the panel whose cached region holds the click
panel_intersect(pos) ==
    CASE pos \in 1..10 -> "Containers"
      [] pos = 11 -> "Logs"
      [] pos = 12 -> "Commands"
      [] OTHER -> selected_panel

----------------------------------------------------------------------------
(* InputHandler *)

\* sort without the test h == &header: any descending sort turns ascending
sort_any_header(header) ==
    sorted_by' = IF sorted_by # NoSort /\ Desc = sorted_by[2]
                 THEN <<header, Asc>>
                 ELSE <<header, Desc>>

\* sort as a cycle through unsorted: ascending on the same header turns unsorted
sort_three_state(header) ==
    sorted_by' = IF sorted_by = <<header, Desc>> THEN <<header, Asc>>
                 ELSE IF sorted_by = <<header, Asc>> THEN NoSort
                 ELSE <<header, Desc>>

\* InputHandler::sort, one hold of the app_data lock
sort(header) ==
    LET output == <<header, Desc>>
        cur == sorted_by
    IN /\ AppFree
       /\ sorted_by' =
             IF cur # NoSort /\ Desc = cur[2] /\ cur[1] = header
             THEN <<header, Asc>>
             ELSE output

\* next() / previous() / Home / End moving the container list whatever the panel
NavigateContainers(dir) ==
    /\ AppFree /\ GuiFree
    /\ containers_move(dir)

\* The match of next() / previous() / Home / End on the selected panel, with
\* both locks held
Navigate(dir) ==
    /\ AppFree /\ GuiFree
    /\ CASE selected_panel = "Containers" -> containers_move(dir)
         [] selected_panel = "Logs" -> log_move(dir)
         [] OTHER -> docker_command_move(dir)

next == Navigate("next")
previous == Navigate("previous")

HeaderOfKey(k) ==
    CASE k = "1" -> "State"
      [] k = "2" -> "Status"
      [] k = "3" -> "Cpu"
      [] k = "4" -> "Memory"
      [] k = "5" -> "Id"
      [] k = "6" -> "Name"
      [] k = "7" -> "Image"
      [] k = "8" -> "Rx"
      [] OTHER -> "Tx"

\* The banner text of a toggle made with the given mouse_capture flag
InfoText(capture) ==
    IF capture THEN "mouse capture disabled" ELSE "mouse capture enabled"

\* m_button publishing the banner whether the side effect succeeds or not
m_button_execute_always_banner ==
    \E ok \in BOOLEAN :
        /\ toggle_log' = Append(toggle_log,
                                [ok |-> ok, txt |-> InfoText(mouse_capture), at |-> now])
        /\ GuiFree
        /\ info_box' = InfoText(mouse_capture)
        /\ info_by' = Len(toggle_log) + 1
        /\ IF ok
           THEN UNCHANGED <<show_error, error>>
           ELSE set_error(IF mouse_capture THEN "MouseCapture(false)"
                                           ELSE "MouseCapture(true)")
        /\ term' = IF ok THEN [term EXCEPT !.mouse = IF mouse_capture THEN "off" ELSE "full"]
                         ELSE term
        /\ pc' = "m_abort"
        /\ UNCHANGED <<sorted_by, cursorVars, show_help, selected_panel, locVars,
                       mouse_capture, is_running, timers, info_sleep, clears, now,
                       chanVars, handled, nav_from, loopVars>>

\* The first part of m_button: the terminal side effect, execute!(stdout(),
\* DisableMouseCapture) or execute!(stdout(), EnableMouseCapture), which
\* succeeds or fails, and the banner or the error it leads to
m_button_execute ==
    \E ok \in BOOLEAN :
        /\ toggle_log' = Append(toggle_log,
                                [ok |-> ok, txt |-> InfoText(mouse_capture), at |-> now])
        /\ IF ok
           THEN /\ GuiFree
                /\ info_box' = InfoText(mouse_capture)
                /\ info_by' = Len(toggle_log) + 1
                /\ UNCHANGED <<show_error, error>>
           ELSE /\ set_error(IF mouse_capture THEN "MouseCapture(false)"
                                              ELSE "MouseCapture(true)")
                /\ UNCHANGED <<info_box, info_by>>
        /\ term' = IF ok THEN [term EXCEPT !.mouse = IF mouse_capture THEN "off" ELSE "full"]
                         ELSE term
        /\ pc' = "m_abort"
        /\ UNCHANGED <<sorted_by, cursorVars, show_help, selected_panel, locVars,
                       mouse_capture, is_running, timers, info_sleep, clears, now,
                       chanVars, handled, nav_from, loopVars>>

\* m_button without the abort of the stored handle
abort_nothing(ts, h) == ts

\* info_sleep_timer.abort(): a task still in its sleep is cancelled; a task
\* past its last await point runs to its end
abort(ts, h) ==
    IF h # 0 /\ ts[h].st = "sleeping" THEN [ts EXCEPT ![h].st = "aborted"] ELSE ts

MAbort ==
    /\ pc = "m_abort"
    /\ timers' = abort(timers, info_sleep)
    /\ pc' = "m_spawn"
    /\ UNCHANGED <<appVars, guiVars, locVars, mouse_capture, is_running, info_sleep,
                   toggle_log, clears, now, chanVars, handled, nav_from, uiVars>>

\* self.info_sleep = Some(tokio::spawn(..sleep(4000 ms)..))
MSpawn ==
    /\ pc = "m_spawn"
    /\ timers' = Append(timers, [st |-> "sleeping", due |-> now + InfoDelay])
    /\ info_sleep' = Len(timers) + 1
    /\ pc' = "m_flip"
    /\ UNCHANGED <<appVars, guiVars, locVars, mouse_capture, is_running, toggle_log,
                   clears, now, chanVars, handled, nav_from, uiVars>>

\* self.mouse_capture = !self.mouse_capture
MFlip ==
    /\ pc = "m_flip"
    /\ mouse_capture' = ~mouse_capture
    /\ pc' = "done"
    /\ UNCHANGED <<appVars, guiVars, locVars, is_running, timerVars, now, chanVars,
                   handled, nav_from, uiVars>>

Quit ==
    /\ is_running' = FALSE
    /\ pc' = "done"
    /\ UNCHANGED <<appVars, guiVars, locVars, mouse_capture, timerVars, now, chanVars,
                   handled, nav_from, uiVars>>

Ignore ==
    /\ pc' = "done"
    /\ UNCHANGED <<appVars, guiVars, locVars, mouse_capture, is_running, timerVars,
                   now, chanVars, handled, nav_from, uiVars>>

\* The error branch with a 'm' arm as in the help branch
ErrorKeysToggles ==
    CASE msg.code = "q" -> Quit
      [] msg.code = "c" ->
            /\ AppFree
            /\ show_error' = FALSE
            /\ pc' = "clear_remove"
            /\ UNCHANGED <<error, sorted_by, cursorVars, guiVars, locVars,
                           mouse_capture, is_running, timerVars, now, chanVars,
                           handled, nav_from, uiVars>>
      [] msg.code = "m" -> m_button_execute
      [] OTHER -> Ignore

\* The error branch without its 'q' arm
ErrorKeysWithoutQuit ==
    CASE msg.code = "c" ->
            /\ AppFree
            /\ show_error' = FALSE
            /\ pc' = "clear_remove"
            /\ UNCHANGED <<error, sorted_by, cursorVars, guiVars, locVars,
                           mouse_capture, is_running, timerVars, now, chanVars,
                           handled, nav_from, uiVars>>
      [] OTHER -> Ignore

\* if show_error { match key_code .. }
ErrorKeys ==
    CASE msg.code = "q" -> Quit
      [] msg.code = "c" ->
            /\ AppFree
            /\ show_error' = FALSE
            /\ pc' = "clear_remove"
            /\ UNCHANGED <<error, sorted_by, cursorVars, guiVars, locVars,
                           mouse_capture, is_running, timerVars, now, chanVars,
                           handled, nav_from, uiVars>>
      [] OTHER -> Ignore

\* The help branch with the Tab arm of the normal branch
HelpKeysWithTab ==
    CASE msg.code = "q" -> Quit
      [] msg.code = "h" ->
            /\ GuiFree
            /\ show_help' = FALSE
            /\ pc' = "done"
            /\ UNCHANGED <<appVars, selected_panel, info_box, info_by, locVars,
                           mouse_capture, is_running, timerVars, now, chanVars,
                           handled, nav_from, uiVars>>
      [] msg.code = "m" -> m_button_execute
      [] msg.code = "Tab" ->
            /\ selected_panel' = next_panel(selected_panel)
            /\ pc' = "done"
            /\ UNCHANGED <<appVars, show_help, info_box, info_by, locVars,
                           mouse_capture, is_running, timerVars, now, chanVars,
                           handled, nav_from, uiVars>>
      [] OTHER -> Ignore

\* else if show_info { match key_code .. }
HelpKeys ==
    CASE msg.code = "q" -> Quit
      [] msg.code = "h" ->
            /\ GuiFree
            /\ show_help' = FALSE
            /\ pc' = "done"
            /\ UNCHANGED <<appVars, selected_panel, info_box, info_by, locVars,
                           mouse_capture, is_running, timerVars, now, chanVars,
                           handled, nav_from, uiVars>>
      [] msg.code = "m" -> m_button_execute
      [] OTHER -> Ignore

StoreFrame ==
    UNCHANGED <<show_error, error, guiVars, locVars, mouse_capture, is_running,
                timerVars, now, chanVars, handled, nav_from, uiVars>>

\* else { match key_code .. }
NormalKeys ==
    CASE msg.code = "0" ->
            /\ AppFree
            /\ sorted_by' = NoSort
            /\ pc' = "done"
            /\ UNCHANGED cursorVars /\ StoreFrame
      [] msg.code \in SortKeys ->
            /\ sort(HeaderOfKey(msg.code))
            /\ pc' = "done"
            /\ UNCHANGED cursorVars /\ StoreFrame
      [] msg.code = "q" -> Quit
      [] msg.code = "h" ->
            /\ GuiFree
            /\ show_help' = TRUE
            /\ pc' = "done"
            /\ UNCHANGED <<appVars, selected_panel, info_box, info_by, locVars,
                           mouse_capture, is_running, timerVars, now, chanVars,
                           handled, nav_from, uiVars>>
      [] msg.code = "m" -> m_button_execute
      [] msg.code \in {"Tab", "BackTab"} ->
            /\ GuiFree
            /\ selected_panel' = IF msg.code = "Tab" THEN next_panel(selected_panel)
                                                     ELSE previous_panel(selected_panel)
            /\ pc' = "done"
            /\ UNCHANGED <<appVars, show_help, info_box, info_by, locVars,
                           mouse_capture, is_running, timerVars, now, chanVars,
                           handled, nav_from, uiVars>>
      [] msg.code \in {"Home", "End"} ->
            /\ Navigate(IF msg.code = "Home" THEN "start" ELSE "end")
            /\ pc' = "done"
            /\ UNCHANGED sorted_by /\ StoreFrame
      [] msg.code \in {"Up", "k"} ->
            /\ previous
            /\ pc' = "done"
            /\ UNCHANGED sorted_by /\ StoreFrame
      [] msg.code \in {"Down", "j"} ->
            /\ next
            /\ pc' = "done"
            /\ UNCHANGED sorted_by /\ StoreFrame
      [] msg.code \in {"PageUp", "PageDown"} ->
            /\ pc' = "page"
            /\ UNCHANGED <<appVars, guiVars, locVars, mouse_capture, is_running,
                           timerVars, now, chanVars, handled, nav_from, uiVars>>
      [] msg.code = "Enter" ->
            /\ GuiFree
            /\ pc' = IF selected_panel = "Commands" THEN "enter_command" ELSE "done"
            /\ UNCHANGED <<appVars, guiVars, locVars, mouse_capture, is_running,
                           timerVars, now, chanVars, handled, nav_from, uiVars>>
      [] OTHER -> Ignore

\* The direction of a navigation key
DirOfKey(k) ==
    CASE k \in {"Down", "j"} -> "next"
      [] k \in {"Up", "k"} -> "previous"
      [] k = "Home" -> "start"
      [] OTHER -> "end"

\* button_press with the two locks of a navigation key taken one by one: here
\* let mut locked_data = self.app_data.lock(), of next, previous and the Home
\* and End arms
ButtonPressNav ==
    /\ pc = "button_press"
    /\ IF loc_show_error THEN ErrorKeys
       ELSE IF loc_show_info THEN HelpKeys
       ELSE IF msg.code \in {"Down", "j", "Up", "k", "Home", "End"}
            THEN /\ AppFree
                 /\ pc' = "nav_gui"
                 /\ UNCHANGED <<appVars, guiVars, locVars, mouse_capture, is_running,
                                timerVars, now, chanVars, handled, nav_from, uiVars>>
            ELSE Ignore

\* match self.gui_state.lock().selected_panel { .. }: the lock of gui_state is
\* taken with the guard of app_data held, the cursor of the selected panel's
\* list moves, and both guards are dropped
NavLockGui ==
    /\ pc = "nav_gui"
    /\ "gui" \notin ui.locks
    /\ CASE selected_panel = "Containers" -> containers_move(DirOfKey(msg.code))
         [] selected_panel = "Logs" -> log_move(DirOfKey(msg.code))
         [] OTHER -> docker_command_move(DirOfKey(msg.code))
    /\ pc' = "done"
    /\ UNCHANGED sorted_by /\ StoreFrame

\* button_press testing show_info before show_error
ButtonPressHelpFirst ==
    /\ pc = "button_press"
    /\ IF loc_show_info THEN HelpKeys
       ELSE IF loc_show_error THEN ErrorKeys
       ELSE NormalKeys

\* InputHandler::button_press, after its two reads of the flags
ButtonPress ==
    /\ pc = "button_press"
    /\ IF loc_show_error THEN ErrorKeys
       ELSE IF loc_show_info THEN HelpKeys
       ELSE NormalKeys

\* self.rec.recv().await: the next message, one of those the scenario sends
Recv(M, counted) ==
    /\ pc = "recv"
    /\ counted => handled < MaxMsgs
    /\ \E m \in M :
          /\ (m.code = "m") => (Len(timers) < MaxToggles)
          /\ msg' = m
    /\ handled' = IF counted THEN handled + 1 ELSE handled
    /\ pc' = "read_error"
    /\ UNCHANGED <<appVars, guiVars, loc_show_error, loc_show_info, option_command,
                   option_id, header_intersects, send_result, page_i, mouse_capture, is_running,
                   timerVars, now, chanVars, nav_from, uiVars>>

\* The cursors of the container list, the log view and the command list
Cursors ==
    <<cont_sel, log_sel,
      IF cont_sel = 0 \/ cont_sel > Len(containers) THEN 0 ELSE containers[cont_sel].cmd>>

\* self.rec.recv().await, for a message of M, keeping the cursors the message
\* finds (up to MaxMsgs messages)
RecvNav(M) ==
    /\ pc = "recv"
    /\ handled < MaxMsgs
    /\ \E m \in M : msg' = m
    /\ handled' = handled + 1
    /\ nav_from' = Cursors
    /\ pc' = "read_error"
    /\ UNCHANGED <<appVars, guiVars, loc_show_error, loc_show_info, option_command,
                   option_id, header_intersects, send_result, page_i, mouse_capture,
                   is_running, timerVars, now, chanVars, uiVars>>

\* let show_error = self.app_data.lock().show_error;
ReadError ==
    /\ pc = "read_error"
    /\ AppFree
    /\ loc_show_error' = show_error
    /\ pc' = "read_help"
    /\ UNCHANGED <<appVars, guiVars, msg, loc_show_info, option_command, option_id,
                   header_intersects, send_result, page_i, mouse_capture, is_running, timerVars,
                   now, chanVars, handled, nav_from, uiVars>>

\* start testing only show_error before mouse_press
ReadHelpErrorOnly ==
    /\ pc = "read_help"
    /\ GuiFree
    /\ loc_show_info' = show_help
    /\ pc' = IF msg.kind = "key" THEN "button_press"
             ELSE IF ~loc_show_error THEN "mouse_press"
             ELSE "done"
    /\ UNCHANGED <<appVars, guiVars, msg, loc_show_error, option_command, option_id,
                   header_intersects, send_result, page_i, mouse_capture, is_running, timerVars,
                   now, chanVars, handled, nav_from, uiVars>>

\* let show_info = self.gui_state.lock().show_help; a mouse event goes on to
\* mouse_press only if !show_error && !show_info
ReadHelp ==
    /\ pc = "read_help"
    /\ GuiFree
    /\ loc_show_info' = show_help
    /\ pc' = IF msg.kind = "key" THEN "button_press"
             ELSE IF ~loc_show_error /\ ~show_help THEN "mouse_press"
             ELSE "done"
    /\ UNCHANGED <<appVars, guiVars, msg, loc_show_error, option_command, option_id,
                   header_intersects, send_result, page_i, mouse_capture, is_running, timerVars,
                   now, chanVars, handled, nav_from, uiVars>>

\* self.app_data.lock().remove_error(), the second lock of the 'c' branch
ClearRemove ==
    /\ pc = "clear_remove"
    /\ remove_error
    /\ pc' = "done"
    /\ UNCHANGED <<show_error, sorted_by, cursorVars, guiVars, locVars, mouse_capture,
                   is_running, timerVars, now, chanVars, handled, nav_from, uiVars>>

\* The loop written for _ in 0..6: one round fewer
PageStepExclusive ==
    /\ pc = "page"
    /\ IF msg.code = "PageUp" THEN previous ELSE next
    /\ page_i' = IF page_i + 2 < PageSteps THEN page_i + 1 ELSE 0
    /\ pc' = IF page_i + 2 < PageSteps THEN "page" ELSE "done"
    /\ UNCHANGED <<show_error, error, sorted_by, guiVars, msg, loc_show_error,
                   loc_show_info, option_command, option_id, header_intersects,
                   send_result, mouse_capture, is_running, timerVars, now, chanVars,
                   handled, nav_from, uiVars>>

\* One round of for _ in 0..=6 { self.previous() / self.next() }
PageStep ==
    /\ pc = "page"
    /\ IF msg.code = "PageUp" THEN previous ELSE next
    /\ page_i' = IF page_i + 1 < PageSteps THEN page_i + 1 ELSE 0
    /\ pc' = IF page_i + 1 < PageSteps THEN "page" ELSE "done"
    /\ UNCHANGED <<show_error, error, sorted_by, guiVars, msg, loc_show_error,
                   loc_show_info, option_command, option_id, header_intersects,
                   send_result, mouse_capture, is_running, timerVars, now, chanVars,
                   handled, nav_from, uiVars>>

\* let option_command = self.app_data.lock().get_docker_command();
EnterCommand ==
    /\ pc = "enter_command"
    /\ AppFree
    /\ option_command' = get_docker_command
    /\ pc' = IF get_docker_command # None THEN "enter_id" ELSE "done"
    /\ UNCHANGED <<appVars, guiVars, msg, loc_show_error, loc_show_info, option_id,
                   header_intersects, send_result, page_i, mouse_capture, is_running, timerVars,
                   now, chanVars, handled, nav_from, uiVars>>

\* let option_id = self.app_data.lock().get_selected_container_id();
EnterId ==
    /\ pc = "enter_id"
    /\ AppFree
    /\ option_id' = get_selected_container_id
    /\ pc' = IF get_selected_container_id # NoId THEN "send" ELSE "done"
    /\ UNCHANGED <<appVars, guiVars, msg, loc_show_error, loc_show_info,
                   option_command, header_intersects, send_result, page_i, mouse_capture,
                   is_running, timerVars, now, chanVars, handled, nav_from, uiVars>>

\* The match with two arms exchanged
DockerMessageSwapped(command, id) ==
    CASE command = "Pause" -> <<"DockerMessage::Unpause", id>>
      [] command = "Unpause" -> <<"DockerMessage::Pause", id>>
      [] command = "Start" -> <<"DockerMessage::Start", id>>
      [] command = "Stop" -> <<"DockerMessage::Stop", id>>
      [] OTHER -> <<"DockerMessage::Restart", id>>

\* match command { DockerControls::X => DockerMessage::X(id) }
DockerMessage(command, id) ==
    CASE command = "Pause" -> <<"DockerMessage::Pause", id>>
      [] command = "Unpause" -> <<"DockerMessage::Unpause", id>>
      [] command = "Start" -> <<"DockerMessage::Start", id>>
      [] command = "Stop" -> <<"DockerMessage::Stop", id>>
      [] OTHER -> <<"DockerMessage::Restart", id>>

\* send(..).await.unwrap(): an error ends the handler's task
SendUnwrap ==
    /\ pc = "send"
    /\ IF docker_closed
       THEN /\ send_result' = "Err"
            /\ pc' = "stopped"
            /\ UNCHANGED docker_chan
       ELSE /\ Len(docker_chan) < DockerCap
            /\ send_result' = "Ok"
            /\ pc' = "done"
            /\ docker_chan' = Append(docker_chan, DockerMessage(option_command, option_id))
    /\ UNCHANGED <<appVars, guiVars, msg, loc_show_error, loc_show_info,
                   option_command, option_id, header_intersects, page_i,
                   mouse_capture, is_running, timerVars, now, docker_closed, handled, nav_from, uiVars>>

\* self.docker_sender.send(..).await.unwrap_or(()): an error (the receiver
\* was dropped) is discarded; a full channel makes the send wait
Send ==
    /\ pc = "send"
    /\ IF docker_closed
       THEN /\ send_result' = "Err"
            /\ UNCHANGED docker_chan
       ELSE /\ Len(docker_chan) < DockerCap
            /\ send_result' = "Ok"
            /\ docker_chan' = Append(docker_chan, DockerMessage(option_command, option_id))
    /\ pc' = "done"
    /\ UNCHANGED <<appVars, guiVars, msg, loc_show_error, loc_show_info,
                   option_command, option_id, header_intersects, page_i,
                   mouse_capture, is_running, timerVars, now, docker_closed, handled, nav_from, uiVars>>

\* InputHandler::mouse_press, up to its first lock
MousePress ==
    /\ pc = "mouse_press"
    /\ CASE msg.code = "ScrollUp" ->
                /\ previous
                /\ pc' = "done"
                /\ UNCHANGED sorted_by /\ StoreFrame
         [] msg.code = "ScrollDown" ->
                /\ next
                /\ pc' = "done"
                /\ UNCHANGED sorted_by /\ StoreFrame
         [] msg.code = "DownLeft" ->
                /\ GuiFree
                /\ header_intersects' = header_intersect(msg.pos)
                /\ pc' = IF header_intersect(msg.pos) # None THEN "mouse_sort"
                                                          ELSE "mouse_panel"
                /\ UNCHANGED <<appVars, guiVars, msg, loc_show_error, loc_show_info,
                               option_command, option_id, send_result, page_i, mouse_capture,
                               is_running, timerVars, now, chanVars, handled, nav_from, uiVars>>
         [] OTHER -> Ignore

\* if let Some(header) = header_intersects { self.sort(header); }
MouseSort ==
    /\ pc = "mouse_sort"
    /\ sort(header_intersects)
    /\ pc' = "mouse_panel"
    /\ UNCHANGED cursorVars /\ StoreFrame

\* self.gui_state.lock().panel_intersect(..)
MousePanel ==
    /\ pc = "mouse_panel"
    /\ GuiFree
    /\ selected_panel' = panel_intersect(msg.pos)
    /\ pc' = "done"
    /\ UNCHANGED <<appVars, show_help, info_box, info_by, locVars, mouse_capture,
                   is_running, timerVars, now, chanVars, handled, nav_from, uiVars>>

\* The loop of start without the test of the running flag
CheckRunningIgnoresFlag ==
    /\ pc = "done"
    /\ pc' = "recv"
    /\ msg' = NoMsg
    /\ loc_show_error' = FALSE
    /\ loc_show_info' = FALSE
    /\ option_command' = None
    /\ option_id' = NoId
    /\ header_intersects' = None
    /\ send_result' = None
    /\ UNCHANGED <<appVars, guiVars, page_i, mouse_capture, is_running, timerVars,
                   now, chanVars, handled, nav_from, uiVars>>

\* if !self.is_running.load(..) { break; }, then the next round of the loop
CheckRunning ==
    /\ pc = "done"
    /\ pc' = IF is_running THEN "recv" ELSE "stopped"
    /\ msg' = NoMsg
    /\ loc_show_error' = FALSE
    /\ loc_show_info' = FALSE
    /\ option_command' = None
    /\ option_id' = NoId
    /\ header_intersects' = None
    /\ send_result' = None
    /\ UNCHANGED <<appVars, guiVars, page_i, mouse_capture, is_running, timerVars,
                   now, chanVars, handled, nav_from, uiVars>>

----------------------------------------------------------------------------
(* The banner timer tasks: sleep(4000 ms), then gui_state.lock().reset_info_box() *)

\* The sleep of task i has elapsed: the task is past its last await point
TimerWake(i) ==
    /\ timers[i].st = "sleeping"
    /\ now >= timers[i].due
    /\ timers' = [timers EXCEPT ![i].st = "running"]
    /\ UNCHANGED <<appVars, guiVars, pc, locVars, mouse_capture, is_running,
                   info_sleep, toggle_log, clears, now, chanVars, handled, nav_from, uiVars>>

\* gui_state.lock().reset_info_box()
TimerReset(i) ==
    /\ timers[i].st = "running"
    /\ GuiFree
    /\ info_box' = None
    /\ info_by' = 0
    /\ timers' = [timers EXCEPT ![i].st = "done"]
    /\ clears' = Append(clears, [timer |-> i, at |-> now, gen |-> info_by])
    /\ UNCHANGED <<appVars, show_help, selected_panel, pc, locVars, mouse_capture,
                   is_running, info_sleep, toggle_log, now, chanVars, handled, nav_from, uiVars>>

TimerTask == \E i \in 1..Len(timers) : TimerWake(i) \/ TimerReset(i)

\* 1000 ms pass.  The synchronous sections of the handler and the wake-up of
\* a task whose sleep has elapsed take no time at this resolution.
Tick ==
    /\ now < MaxTime
    /\ pc \in {"recv", "send", "stopped"}
    /\ \A i \in 1..Len(timers) :
          /\ timers[i].st # "running"
          /\ timers[i].st = "sleeping" => now < timers[i].due
    /\ now' = now + 1
    /\ UNCHANGED <<appVars, guiVars, pc, locVars, mouse_capture, is_running,
                   timerVars, chanVars, handled, nav_from, uiVars>>

----------------------------------------------------------------------------
(* The runtime driver, as far as the handler can observe it *)

\* The driver records an error
DriverSetError ==
    /\ is_running
    /\ set_error("DockerCommand")
    /\ UNCHANGED <<sorted_by, cursorVars, guiVars, pc, locVars, mouse_capture,
                   is_running, timerVars, now, chanVars, handled, nav_from, uiVars>>

\* The driver replaces the container list; a container that is new or whose
\* state changed gets its commands afresh, with the first one highlighted
DriverUpdate ==
    /\ is_running
    /\ AppFree
    /\ \E n \in 0..MaxContainers : \E s \in [1..n -> States] :
          /\ containers' =
                [i \in 1..n |->
                    IF i <= Len(containers) /\ containers[i].st = s[i]
                    THEN containers[i]
                    ELSE [id |-> i, st |-> s[i], cmd |-> 1]]
          /\ cont_sel' = IF n = 0 THEN 0
                         ELSE IF cont_sel = 0 THEN 1
                         ELSE IF cont_sel > n THEN n ELSE cont_sel
    /\ UNCHANGED <<show_error, error, sorted_by, log_len, log_sel, guiVars, pc,
                   locVars, mouse_capture, is_running, timerVars, now, chanVars,
                   handled, nav_from, uiVars>>

\* The driver's update finds one container gone: the list loses it and the
\* cursor keeps its index, clipped to the list
DriverRemove ==
    /\ is_running
    /\ AppFree
    /\ \E i \in 1..Len(containers) :
          /\ containers' = [j \in 1..(Len(containers) - 1) |->
                               IF j < i THEN containers[j] ELSE containers[j + 1]]
          /\ cont_sel' = IF Len(containers) = 1 THEN 0
                         ELSE IF cont_sel > Len(containers) - 1
                              THEN Len(containers) - 1 ELSE cont_sel
    /\ UNCHANGED <<show_error, error, sorted_by, log_len, log_sel, guiVars, pc,
                   locVars, mouse_capture, is_running, timerVars, now, chanVars,
                   handled, nav_from, uiVars>>

\* The driver takes a command from the channel
DriverRecv ==
    /\ ~docker_closed
    /\ docker_chan # <<>>
    /\ docker_chan' = Tail(docker_chan)
    /\ UNCHANGED <<appVars, guiVars, pc, locVars, mouse_capture, is_running,
                   timerVars, now, docker_closed, handled, nav_from, uiVars>>

\* The driver's receiver is dropped; what the channel still holds is never read
DriverDrop ==
    /\ ~docker_closed
    /\ docker_closed' = TRUE
    /\ UNCHANGED <<appVars, guiVars, pc, locVars, mouse_capture, is_running,
                   timerVars, now, docker_chan, handled, nav_from, uiVars>>

----------------------------------------------------------------------------
(* Ui: the render / lifecycle loop and the terminal device *)

\* A step of Ui that touches neither store nor the running flag
UiOnly == UNCHANGED <<appVars, guiVars, is_running, coordVars>>

\* Ok(..) or Err(..) of init_terminal goes to its caller: setup_terminal
\* hands the error to Ui::start, which ends; exec discards it
InitReturns(ok) ==
    IF ok \/ ui.ret # "term_new"
    THEN [ui EXCEPT !.pc = ui.ret]
    ELSE [ui EXCEPT !.pc = "ended", !.exit = "setup_error"]

\* enable_raw_mode()?
InitRaw ==
    /\ ui.pc = "init_raw"
    /\ \E ok \in BOOLEAN :
          IF ok
          THEN /\ term' = [term EXCEPT !.raw = TRUE]
               /\ ui' = [ui EXCEPT !.pc = "init_alt"]
          ELSE /\ UNCHANGED term
               /\ ui' = InitReturns(FALSE)
    /\ UNCHANGED <<overlayVars, input_chan>>
    /\ UiOnly

\* execute!(stdout, EnterAlternateScreen)?
InitAlt ==
    /\ ui.pc = "init_alt"
    /\ \E ok \in BOOLEAN :
          IF ok
          THEN /\ term' = [term EXCEPT !.alt = TRUE]
               /\ ui' = [ui EXCEPT !.pc = "init_mouse"]
          ELSE /\ UNCHANGED term
               /\ ui' = InitReturns(FALSE)
    /\ UNCHANGED <<overlayVars, input_chan>>
    /\ UiOnly

\* Self::enable_mouse_capture()?; Ok(stdout)
InitMouse ==
    /\ ui.pc = "init_mouse"
    /\ \E ok \in BOOLEAN :
          /\ term' = IF ok THEN [term EXCEPT !.mouse = "restricted"] ELSE term
          /\ ui' = InitReturns(ok)
    /\ UNCHANGED <<overlayVars, input_chan>>
    /\ UiOnly

\* Ok(Terminal::new(backend)?) of setup_terminal, get_cursor_position, and
\* the construction of Ui with now: Instant::now()
TermNew ==
    /\ ui.pc = "term_new"
    /\ \E ok \in BOOLEAN :
          ui' = IF ok THEN [ui EXCEPT !.pc = "draw_ui", !.now = now]
                      ELSE [ui EXCEPT !.pc = "ended", !.exit = "setup_error"]
    /\ UNCHANGED <<term, overlayVars, input_chan>>
    /\ UiOnly

\* draw_ui entering gui_loop whatever the status
DrawUiIgnoresStatus ==
    /\ ui.pc = "draw_ui"
    /\ GuiFree
    /\ ui' = [ui EXCEPT !.status = IF status_connect THEN "DockerConnect" ELSE "Ok",
                        !.pc = "loop_check"]
    /\ UNCHANGED <<term, overlayVars, input_chan>>
    /\ UiOnly

\* Ui::draw_ui: let status = self.gui_state.lock().get_status(), then
\* err_loop (with let mut seconds = 5) if it holds Status::DockerConnect,
\* gui_loop otherwise
DrawUi ==
    /\ ui.pc = "draw_ui"
    /\ GuiFree
    /\ ui' = IF status_connect
             THEN [ui EXCEPT !.status = "DockerConnect", !.pc = "err_check",
                             !.seconds = ErrSeconds]
             ELSE [ui EXCEPT !.status = "Ok", !.pc = "loop_check"]
    /\ UNCHANGED <<term, overlayVars, input_chan>>
    /\ UiOnly

\* err_loop leaving its loop at seconds < 0
ErrCheckShowsZero ==
    /\ ui.pc = "err_check"
    /\ ui' = IF now - ui.now >= 1
             THEN IF ui.seconds - 1 < 0
                  THEN [ui EXCEPT !.seconds = @ - 1, !.now = now, !.pc = "reset_clear",
                                  !.ret = "ended", !.exit = "error_shown"]
                  ELSE [ui EXCEPT !.seconds = @ - 1, !.now = now, !.pc = "err_draw"]
             ELSE [ui EXCEPT !.pc = "err_draw"]
    /\ UNCHANGED <<term, overlayVars, input_chan>>
    /\ UiOnly

\* The head of err_loop's loop: if self.now.elapsed() >= 1 s, seconds -= 1 and
\* self.now = Instant::now(), and break if seconds < 1; after the loop
\* err_loop returns Ok(()) and Ui::start goes on to reset_terminal
ErrCheck ==
    /\ ui.pc = "err_check"
    /\ ui' = IF now - ui.now >= 1
             THEN IF ui.seconds - 1 < 1
                  THEN [ui EXCEPT !.seconds = @ - 1, !.now = now, !.pc = "reset_clear",
                                  !.ret = "ended", !.exit = "error_shown"]
                  ELSE [ui EXCEPT !.seconds = @ - 1, !.now = now, !.pc = "err_draw"]
             ELSE [ui EXCEPT !.pc = "err_draw"]
    /\ UNCHANGED <<term, overlayVars, input_chan>>
    /\ UiOnly

\* The countdown values shown so far, in their order, with one more draw: a
\* redraw of the value on the screen shows nothing new
Shown(drawn, seconds) ==
    IF drawn # <<>> /\ drawn[Len(drawn)] = seconds THEN drawn ELSE Append(drawn, seconds)

\* self.terminal.draw(|f| draw_blocks::error(f, AppError::DockerConnect,
\* Some(seconds))): on an error err_loop returns Err(AppError::Terminal),
\* draw_ui hands it up and Ui::start goes on to reset_terminal
ErrDraw ==
    /\ ui.pc = "err_draw"
    /\ \E ok \in BOOLEAN :
          ui' = IF ok
                THEN [ui EXCEPT !.drawn = Shown(@, ui.seconds), !.pc = "err_check"]
                ELSE [ui EXCEPT !.pc = "reset_clear", !.ret = "ended",
                                !.exit = "draw_error"]
    /\ UNCHANGED <<term, overlayVars, input_chan>>
    /\ UiOnly

\* 1000 ms pass while Ui is in draw_ui or err_loop.  One round of err_loop
\* (a test of the elapsed time and a draw) takes no time at this resolution:
\* the test at the head of the loop is reached before a second second has
\* elapsed
Second ==
    /\ now < MaxTime
    /\ ui.pc \in {"draw_ui", "err_check", "err_draw"}
    /\ now - ui.now < 1
    /\ now' = now + 1
    /\ UNCHANGED <<appVars, guiVars, pc, locVars, mouse_capture, is_running,
                   timerVars, chanVars, handled, nav_from, uiVars>>

\* while self.is_running.load(..); when it ends gui_loop returns Ok(()) and
\* Ui::start goes on to reset_terminal
LoopCheck ==
    /\ ui.pc = "loop_check"
    /\ ui' = IF is_running
             THEN [ui EXCEPT !.pc = "fd_lock", !.polled = NoEvent, !.drew = None]
             ELSE [ui EXCEPT !.pc = "reset_clear", !.ret = "ended", !.exit = "quit",
                             !.polled = NoEvent, !.drew = None]
    /\ UNCHANGED <<term, overlayVars, input_chan>>
    /\ UiOnly

\* FrameData::from: the fields copied out of the two stores (has_error and
\* sorted_by of app_data; delete_confirm, info_text, selected_panel and the
\* status, of which Status::Exec is tested, of gui_state)
FrameData ==
    [exec |-> status_exec,
     delete_confirm |-> delete_container,
     has_error |-> error,
     sorted_by |-> sorted_by,
     selected_panel |-> selected_panel,
     info_text |-> info_box]

\* The tuple of FrameData::from with the guard of gui_state taken first
FdOrderGuiFirst == <<"gui", "app">>

\* (ui.app_data.lock(), ui.gui_state.lock()): the elements of a tuple are
\* evaluated from left to right
FdOrder == <<"app", "gui">>

\* A lock nobody holds
Free(l) == l \notin ui.locks \cup HandlerLocks

\* ui.app_data.lock() of FrameData::from
FdLockFirst ==
    /\ ui.pc = "fd_lock"
    /\ Free(FdOrder[1])
    /\ ui' = [ui EXCEPT !.pc = "fd_lock_second", !.locks = {FdOrder[1]}]
    /\ UNCHANGED <<term, overlayVars, input_chan>>
    /\ UiOnly

\* ui.gui_state.lock() of FrameData::from, with the first guard held
FdLockSecond ==
    /\ ui.pc = "fd_lock_second"
    /\ Free(FdOrder[2])
    /\ ui' = [ui EXCEPT !.pc = "fd_copy", !.locks = {"app", "gui"}]
    /\ UNCHANGED <<term, overlayVars, input_chan>>
    /\ UiOnly

\* FrameData::from locking app_data only
FdLockAppOnly ==
    /\ ui.pc = "fd_lock"
    /\ AppFree
    /\ ui' = [ui EXCEPT !.pc = "fd_copy", !.locks = {"app"}]
    /\ UNCHANGED <<term, overlayVars, input_chan>>
    /\ UiOnly

\* let (app_data, gui_data) = (ui.app_data.lock(), ui.gui_state.lock());
FdLock ==
    /\ ui.pc = "fd_lock"
    /\ AppFree /\ GuiFree
    /\ ui' = [ui EXCEPT !.pc = "fd_copy", !.locks = {"app", "gui"}]
    /\ UNCHANGED <<term, overlayVars, input_chan>>
    /\ UiOnly

\* FrameData::from holding both guards to its end
FdCopyKeepsGuards ==
    /\ ui.pc = "fd_copy"
    /\ ui' = [ui EXCEPT !.fd = FrameData,
                        !.pc = IF status_exec THEN "exec_mode" ELSE "draw"]
    /\ UNCHANGED <<term, overlayVars, input_chan>>
    /\ UiOnly

\* The copy of FrameData::from, at whose end both guards are dropped, and
\* the test of fd.status for Status::Exec
FdCopy ==
    /\ ui.pc = "fd_copy"
    /\ ui' = [ui EXCEPT !.fd = FrameData,
                        !.locks = {},
                        !.pc = IF status_exec THEN "exec_mode" ELSE "draw"]
    /\ UNCHANGED <<term, overlayVars, input_chan>>
    /\ UiOnly

\* let exec_mode = self.gui_state.lock().get_exec_mode(); with a mode,
\* self.reset_terminal().ok() comes next
ExecMode ==
    /\ ui.pc = "exec_mode"
    /\ GuiFree
    /\ ui' = IF exec_mode # None
             THEN [ui EXCEPT !.pc = "reset_clear", !.ret = "exec_run",
                             !.execs = @ + 1, !.session = None]
             ELSE [ui EXCEPT !.pc = "exec_after", !.execs = @ + 1, !.session = None]
    /\ UNCHANGED <<term, overlayVars, input_chan>>
    /\ UiOnly

\* self.terminal.clear().ok(); mode.run(..): the external session starts
ExecRun ==
    /\ ui.pc = "exec_run"
    /\ ui' = [ui EXCEPT !.pc = "session", !.sessions = @ + 1]
    /\ UNCHANGED <<term, overlayVars, input_chan>>
    /\ UiOnly

\* exec returning the session's error to gui_loop, which returns it
ExecSessionEndsPropagating ==
    /\ ui.pc = "session"
    /\ \E res \in {"Ok", "Err"} :
          ui' = IF res = "Err"
                THEN [ui EXCEPT !.session = res, !.pc = "reset_clear",
                                !.ret = "ended", !.exit = "exec_error"]
                ELSE [ui EXCEPT !.session = res, !.pc = "exec_after"]
    /\ UNCHANGED <<term, overlayVars, input_chan>>
    /\ UiOnly

\* mode.run(..).await returns
ExecSessionEnds ==
    /\ ui.pc = "session"
    /\ \E res \in {"Ok", "Err"} :
          ui' = [ui EXCEPT !.session = res,
                           !.pc = IF res = "Err" THEN "exec_error" ELSE "exec_after"]
    /\ UNCHANGED <<term, overlayVars, input_chan>>
    /\ UiOnly

\* self.app_data.lock().set_error(e, &self.gui_state, Status::Error)
ExecSetError ==
    /\ ui.pc = "exec_error"
    /\ GuiFree
    /\ set_error("Exec")
    /\ ui' = [ui EXCEPT !.pc = "exec_after"]
    /\ UNCHANGED <<sorted_by, cursorVars, guiVars, is_running, coordVars, term,
                   overlayVars, input_chan>>

\* self.app_data.lock() of exec's set_error call
ExecErrorLock ==
    /\ ui.pc = "exec_error"
    /\ AppFree
    /\ ui' = [ui EXCEPT !.pc = "exec_set_error", !.locks = {"app"}]
    /\ UNCHANGED <<term, overlayVars, input_chan>>
    /\ UiOnly

\* .set_error(e, &self.gui_state, Status::Error): set_error takes the lock of
\* gui_state for the status with the guard of app_data held; the guard is
\* dropped at the end of the statement
ExecErrorSet ==
    /\ ui.pc = "exec_set_error"
    /\ GuiFree
    /\ error' = "Exec"
    /\ show_error' = TRUE
    /\ ui' = [ui EXCEPT !.pc = "exec_after", !.locks = {}]
    /\ UNCHANGED <<sorted_by, cursorVars, guiVars, is_running, coordVars, term,
                   overlayVars, input_chan>>

\* self.terminal.clear().ok(); self.reset_terminal().ok();
ExecAfter ==
    /\ ui.pc = "exec_after"
    /\ ui' = [ui EXCEPT !.pc = "reset_clear", !.ret = "exec_init"]
    /\ UNCHANGED <<term, overlayVars, input_chan>>
    /\ UiOnly

\* Self::init_terminal().ok();
ExecInit ==
    /\ ui.pc = "exec_init"
    /\ ui' = [ui EXCEPT !.pc = "init_raw", !.ret = "exec_del"]
    /\ UNCHANGED <<term, overlayVars, input_chan>>
    /\ UiOnly

\* self.gui_state.lock().status_del(Status::Exec); then the frame is drawn
ExecDel ==
    /\ ui.pc = "exec_del"
    /\ GuiFree
    /\ status_exec' = FALSE
    /\ ui' = [ui EXCEPT !.pc = "draw"]
    /\ UNCHANGED <<term, exec_mode, delete_container, status_connect, area_map,
                   input_chan>>
    /\ UiOnly

\* The steps of reset_terminal, in the order of the calls
ResetOps == <<"clear", "leave_alternate_screen", "disable_mouse_capture",
              "disable_raw_mode", "set_cursor_position", "show_cursor">>

\* expr?: on an error reset_terminal returns it to its caller at once
ResetNext(ok, then) == IF ok THEN then ELSE ui.ret

\* self.terminal.clear()?, the first call of reset_terminal
ResetClear ==
    /\ ui.pc = "reset_clear"
    /\ \E ok \in BOOLEAN :
          ui' = [ui EXCEPT !.pc = ResetNext(ok, "reset_leave"),
                           !.resets = @ + 1,
                           !.reset_ops = <<"clear">>]
    /\ UNCHANGED <<term, overlayVars, input_chan>>
    /\ UiOnly

\* execute!(.., LeaveAlternateScreen, DisableMouseCapture)?: the two commands
\* are written in this order; when the write fails, the first n reached the
\* terminal
ResetLeave ==
    /\ ui.pc = "reset_leave"
    /\ \E n \in 0..2 :
          /\ term' = [term EXCEPT !.alt = IF n >= 1 THEN FALSE ELSE @,
                                  !.mouse = IF n >= 2 THEN "off" ELSE @]
          /\ ui' = [ui EXCEPT !.pc = ResetNext(n = 2, "reset_raw"),
                              !.reset_ops = @ \o <<"leave_alternate_screen",
                                                   "disable_mouse_capture">>]
    /\ UNCHANGED <<overlayVars, input_chan>>
    /\ UiOnly

\* disable_raw_mode()?
ResetRaw ==
    /\ ui.pc = "reset_raw"
    /\ \E ok \in BOOLEAN :
          /\ term' = IF ok THEN [term EXCEPT !.raw = FALSE] ELSE term
          /\ ui' = [ui EXCEPT !.pc = ResetNext(ok, "reset_cursor"),
                              !.reset_ops = Append(@, "disable_raw_mode")]
    /\ UNCHANGED <<overlayVars, input_chan>>
    /\ UiOnly

\* self.terminal.clear().ok(); self.terminal.set_cursor_position(..)?
ResetCursor ==
    /\ ui.pc = "reset_cursor"
    /\ \E ok \in BOOLEAN :
          ui' = [ui EXCEPT !.pc = ResetNext(ok, "reset_show"),
                           !.reset_ops = Append(@, "set_cursor_position")]
    /\ UNCHANGED <<term, overlayVars, input_chan>>
    /\ UiOnly

\* Ok(self.terminal.show_cursor()?)
ResetShow ==
    /\ ui.pc = "reset_show"
    /\ ui' = [ui EXCEPT !.pc = ui.ret, !.reset_ops = Append(@, "show_cursor")]
    /\ UNCHANGED <<term, overlayVars, input_chan>>
    /\ UiOnly

\* get_container_name_by_id(id) finds the container
NameById(id) == \E i \in 1..Len(containers) : containers[i].id = id

\* terminal.draw(|frame| draw_frame(..)): the panels, drawn from fd; the
\* drawing functions cache the regions of the headers and panels they draw
Draw ==
    /\ ui.pc = "draw"
    /\ GuiFree
    /\ area_map' = "cached"
    /\ ui' = [ui EXCEPT !.pc = IF ui.fd.delete_confirm # NoId THEN "draw_delete"
                                                              ELSE "draw_flush"]
    /\ UNCHANGED <<term, status_exec, exec_mode, delete_container, status_connect,
                   input_chan>>
    /\ UiOnly

\* app_data.lock().get_container_name_by_id(id): the guard lives to the end
\* of the statement
DrawDeleteLock ==
    /\ ui.pc = "draw_delete"
    /\ AppFree
    /\ ui' = [ui EXCEPT !.locks = {"app"},
                        !.pc = IF NameById(ui.fd.delete_confirm)
                               THEN "draw_delete_confirm" ELSE "draw_delete_clear"]
    /\ UNCHANGED <<term, overlayVars, input_chan>>
    /\ UiOnly

\* |name| draw_blocks::delete_confirm(f, gui_state, name), then the end of
\* the statement
DrawDeleteConfirm ==
    /\ ui.pc = "draw_delete_confirm"
    /\ ui' = [ui EXCEPT !.locks = {}, !.pc = "draw_flush"]
    /\ UNCHANGED <<term, overlayVars, input_chan>>
    /\ UiOnly

\* The map_or_else whose first closure leaves the target as it is
DrawDeleteClearKeepsTarget ==
    /\ ui.pc = "draw_delete_clear"
    /\ GuiFree
    /\ delete_container' = delete_container
    /\ ui' = [ui EXCEPT !.locks = {}, !.pc = "draw_flush"]
    /\ UNCHANGED <<term, status_exec, exec_mode, status_connect, area_map, input_chan>>
    /\ UiOnly

\* || gui_state.lock().set_delete_container(None), then the end of the
\* statement
DrawDeleteClear ==
    /\ ui.pc = "draw_delete_clear"
    /\ GuiFree
    /\ delete_container' = NoId
    /\ ui' = [ui EXCEPT !.locks = {}, !.pc = "draw_flush"]
    /\ UNCHANGED <<term, status_exec, exec_mode, status_connect, area_map, input_chan>>
    /\ UiOnly

\* The draw error handed up with ? in Ui::start, past reset_terminal
DrawFlushPropagates ==
    /\ ui.pc = "draw_flush"
    /\ \E ok \in BOOLEAN :
          ui' = IF ok
                THEN [ui EXCEPT !.pc = "poll", !.drew = "ok"]
                ELSE [ui EXCEPT !.pc = "ended", !.exit = "draw_error", !.drew = "err"]
    /\ UNCHANGED <<term, overlayVars, input_chan>>
    /\ UiOnly

\* gui_loop going on to the poll when the draw failed
DrawFlushIgnoresError ==
    /\ ui.pc = "draw_flush"
    /\ \E ok \in BOOLEAN :
          ui' = [ui EXCEPT !.pc = "poll", !.drew = IF ok THEN "ok" ELSE "err"]
    /\ UNCHANGED <<term, overlayVars, input_chan>>
    /\ UiOnly

\* The rest of draw_frame and the write of the frame to the terminal: on an
\* error gui_loop returns Err(AppError::Terminal) and Ui::start goes on to
\* reset_terminal
DrawFlush ==
    /\ ui.pc = "draw_flush"
    /\ \E ok \in BOOLEAN :
          ui' = IF ok
                THEN [ui EXCEPT !.pc = "poll", !.drew = "ok"]
                ELSE [ui EXCEPT !.pc = "reset_clear", !.ret = "ended",
                                !.exit = "draw_error", !.drew = "err"]
    /\ UNCHANGED <<term, overlayVars, input_chan>>
    /\ UiOnly

\* crossterm::event::poll(self.input_poll_rate) and event::read(): no event
\* within the poll rate or an event that is not forwarded, a key press or a
\* qualifying mouse event of M (as long as MaxMsgs allows), or a resize
Poll(M) ==
    /\ ui.pc = "poll"
    /\ \/ ui' = [ui EXCEPT !.pc = "loop_check"]
       \/ /\ handled + Len(input_chan) < MaxMsgs
          /\ \E m \in M : ui' = [ui EXCEPT !.pc = "forward", !.ev = m]
       \/ ui' = [ui EXCEPT !.pc = "resize"]
    /\ UNCHANGED <<term, overlayVars, input_chan>>
    /\ UiOnly

\* The kinds of mouse event gui_loop forwards: Down(_), ScrollDown, ScrollUp
ForwardedMouse == {"DownLeft", "DownRight", "DownMiddle", "ScrollDown", "ScrollUp"}

\* InputMessages::ButtonPress((key.code, key.modifiers)) and
\* InputMessages::MouseEvent(m)
MessageOf(e) == IF e.kind = "key" THEN KeyMsg(e.code) ELSE MouseMsg(e.code, e.pos)

\* The chain forwarding a key event of any kind
EventTargetAnyKey(e) ==
    IF e.kind = "key"
    THEN "forward"
    ELSE IF e.kind = "mouse"
         THEN IF e.code \in ForwardedMouse THEN "forward" ELSE "loop_check"
         ELSE IF e.kind = "resize" THEN "resize" ELSE "loop_check"

\* The if / else if chain on the event read: where it takes the loop
EventTarget(e) ==
    IF e.kind = "key"
    THEN IF e.sub = "Press" THEN "forward" ELSE "loop_check"
    ELSE IF e.kind = "mouse"
         THEN IF e.code \in ForwardedMouse THEN "forward" ELSE "loop_check"
         ELSE IF e.kind = "resize" THEN "resize" ELSE "loop_check"

\* crossterm::event::poll(self.input_poll_rate) and event::read() with the
\* terminal delivering the events of E: no event within the poll rate (or an
\* error of poll or read), or an event of E, which is forwarded, leads to the
\* resize branch or is dropped (events to forward as long as n allows)
PollEvent(E, n) ==
    /\ ui.pc = "poll"
    /\ \/ ui' = [ui EXCEPT !.pc = "loop_check"]
       \/ \E e \in E :
             /\ EventTarget(e) = "forward" => handled + Len(input_chan) < n
             /\ ui' = [ui EXCEPT !.polled = e,
                                 !.pc = EventTarget(e),
                                 !.ev = IF EventTarget(e) = "forward" THEN MessageOf(e)
                                                                      ELSE NoMsg]
    /\ UNCHANGED <<term, overlayVars, input_chan>>
    /\ UiOnly

\* GuiState::clear_area_map: the cached regions of the panels and headers,
\* against which mouse positions are tested, are forgotten
clear_area_map == area_map' = "empty"

\* self.gui_state.lock().clear_area_map(); self.terminal.autoresize().ok();
Resize ==
    /\ ui.pc = "resize"
    /\ GuiFree
    /\ clear_area_map
    /\ ui' = [ui EXCEPT !.pc = "loop_check", !.polled = NoEvent]
    /\ UNCHANGED <<term, status_exec, exec_mode, delete_container, status_connect,
                   input_chan>>
    /\ UiOnly

\* self.input_tx.send(..).await.ok(): the message is buffered when the
\* channel has room; with the receiver gone (the handler has ended) the
\* error is discarded
Forward ==
    /\ ui.pc = "forward"
    /\ IF pc = "stopped"
       THEN UNCHANGED input_chan
       ELSE /\ Len(input_chan) < InputCap
            /\ input_chan' = Append(input_chan, ui.ev)
    /\ ui' = [ui EXCEPT !.pc = "loop_check", !.ev = NoMsg, !.polled = NoEvent]
    /\ UNCHANGED <<term, overlayVars>>
    /\ UiOnly

\* self.rec.recv().await: the next message of the input channel
RecvQueued ==
    /\ pc = "recv"
    /\ input_chan # <<>>
    /\ msg' = Head(input_chan)
    /\ input_chan' = Tail(input_chan)
    /\ handled' = handled + 1
    /\ pc' = "read_error"
    /\ UNCHANGED <<appVars, guiVars, loc_show_error, loc_show_info, option_command,
                   option_id, header_intersects, send_result, page_i, mouse_capture,
                   is_running, timerVars, now, chanVars, nav_from, term, ui,
                   overlayVars>>

\* self.rec.recv().await returning None: the channel is empty and its only
\* sender, the input_tx that Ui owns, was dropped at the end of Ui::start
RecvClosed ==
    /\ pc = "recv"
    /\ input_chan = <<>>
    /\ ui.pc = "ended"
    /\ pc' = "stopped"
    /\ UNCHANGED <<appVars, guiVars, locVars, mouse_capture, is_running, timerVars,
                   now, chanVars, handled, nav_from, uiVars>>

----------------------------------------------------------------------------
(* What the render loop observes of the rest of the program *)

\* The Exec overlay is raised, with or without an exec mode (up to MaxExecs
\* hand-offs)
SetExec ==
    /\ is_running
    /\ GuiFree
    /\ ~status_exec
    /\ ui.execs < MaxExecs
    /\ ui.pc # "ended"
    /\ status_exec' = TRUE
    /\ exec_mode' \in {None, "exec_mode"}
    /\ UNCHANGED <<term, ui, delete_container, status_connect, area_map, input_chan>>
    /\ UiOnly

\* A listed container becomes the target of the delete confirmation
SetDelete ==
    /\ is_running
    /\ GuiFree
    /\ delete_container = NoId
    /\ \E i \in 1..Len(containers) : delete_container' = containers[i].id
    /\ UNCHANGED <<term, ui, status_exec, exec_mode, status_connect, area_map,
                   input_chan>>
    /\ UiOnly

\* The connection to the container runtime fails: Status::DockerConnect
SetConnect ==
    /\ ~status_connect
    /\ GuiFree
    /\ ui.pc # "ended"
    /\ status_connect' = TRUE
    /\ UNCHANGED <<term, ui, status_exec, exec_mode, delete_container, area_map,
                   input_chan>>
    /\ UiOnly

\* The running flag is cleared from outside the two loops
Shutdown ==
    /\ is_running
    /\ ui.pc # "ended"
    /\ is_running' = FALSE
    /\ UNCHANGED <<appVars, guiVars, coordVars, uiVars>>

----------------------------------------------------------------------------
(* The help popup (src/src/ui/draw_blocks/help.rs) *)

\* The fields of config::Keymap, each a (KeyCode, Option<KeyCode>)
KeymapFields ==
    {"clear", "delete_deny", "delete_confirm", "exec", "filter_mode", "quit",
     "save_logs", "scroll_down_many", "scroll_down_one", "scroll_end",
     "scroll_start", "scroll_up_many", "scroll_up_one", "select_next_panel",
     "select_previous_panel", "sort_by_name", "sort_by_state", "sort_by_status",
     "sort_by_cpu", "sort_by_memory", "sort_by_id", "sort_by_image",
     "sort_by_rx", "sort_by_tx", "sort_reset", "toggle_help",
     "toggle_mouse_capture"}

\* Keymap::new(): the bindings the built-in listing describes
DefaultKeymap ==
    [clear |-> <<"Esc", "c">>,
     delete_deny |-> <<"n", None>>,
     delete_confirm |-> <<"y", None>>,
     exec |-> <<"e", None>>,
     filter_mode |-> <<"/", "F1">>,
     quit |-> <<"q", None>>,
     save_logs |-> <<"s", None>>,
     scroll_down_many |-> <<"PageDown", None>>,
     scroll_down_one |-> <<"Down", "j">>,
     scroll_end |-> <<"End", None>>,
     scroll_start |-> <<"Home", None>>,
     scroll_up_many |-> <<"PageUp", None>>,
     scroll_up_one |-> <<"Up", "k">>,
     select_next_panel |-> <<"Tab", None>>,
     select_previous_panel |-> <<"BackTab", None>>,
     sort_by_name |-> <<"1", None>>,
     sort_by_state |-> <<"2", None>>,
     sort_by_status |-> <<"3", None>>,
     sort_by_cpu |-> <<"4", None>>,
     sort_by_memory |-> <<"5", None>>,
     sort_by_id |-> <<"6", None>>,
     sort_by_image |-> <<"7", None>>,
     sort_by_rx |-> <<"8", None>>,
     sort_by_tx |-> <<"9", None>>,
     sort_reset |-> <<"0", None>>,
     toggle_help |-> <<"h", None>>,
     toggle_mouse_capture |-> <<"m", None>>]

\* KeyCode's to_string, as the expected screens of the tests show it
KeyName(k) ==
    CASE k = "Delete" -> "Del"
      [] k = "PageDown" -> "Page Down"
      [] k = "PageUp" -> "Page Up"
      [] k = "BackTab" -> "Back Tab"
      [] OTHER -> k

\* The spans of a line: button_item is the key in brackets, highlighted,
\* button_desc plain text
button_item(x) == <<"item", x>>
button_desc(x) == <<"desc", x>>
or == button_desc("or")
space == button_desc(" ")
empty_span == <<>>

\* HelpInfo::gen_name, gen_description and gen_final: the lines of the logo,
\* the description and the footer
gen_name == <<empty_span, <<button_item("NAME_TEXT")>>>>
gen_description == <<empty_span, <<button_item("DESCRIPTION")>>, empty_span>>
gen_final ==
    <<empty_span,
      <<button_desc("currently an early work in progress, all and any input appreciated")>>,
      <<button_item("REPO")>>>>

\* HelpInfo::gen_keymap_info: the built-in listing
gen_keymap_info ==
    << <<space, button_item("tab"), or, button_item("shift+tab"),
         button_desc("change panels")>>,
       <<space, button_item("up down"), or, button_item("j k"), or,
         button_item("PgUp PgDown"), or, button_item("Home End"),
         button_desc("change selected line")>>,
       <<space, button_item("enter"), button_desc("send docker container command")>>,
       <<space, button_item("e"), button_desc("exec into a container")>>,
       <<space, button_item("h"),
         button_desc("toggle this help information - or click heading")>>,
       <<space, button_item("s"), button_desc("save logs to file")>>,
       <<space, button_item("m"),
         button_desc("toggle mouse capture - if disabled, text on screen can be selected & copied")>>,
       <<space, button_item("F1"), or, button_item("/"), button_desc("enter filter mode")>>,
       <<space, button_item("0"), button_desc("stop sort")>>,
       <<space, button_item("1 - 9"), button_desc("sort by header - or click header")>>,
       <<space, button_item("esc"), button_desc("close dialog")>>,
       <<space, button_item("q"), button_desc("quit at any time")>> >>

\* The closure or_secondary of gen_custom_keymap_info: a.1.map_or_else(..)
or_secondary(a, desc) ==
    IF a[2] = None
    THEN <<space, button_item(KeyName(a[1])), button_desc(desc)>>
    ELSE <<space, button_item(KeyName(a[1])), or, button_item(KeyName(a[2])),
           button_desc(desc)>>

\* The first line of the custom listing
CustomHeader == <<button_item("Custom keymap config in use")>>

\* HelpInfo::gen_custom_keymap_info: the lines in the order of the array
gen_custom_keymap_info(km) ==
    << CustomHeader,
       or_secondary(km.select_next_panel, "select next panel"),
       or_secondary(km.select_previous_panel, "select previous panel"),
       or_secondary(km.scroll_down_one, "scroll list down by one"),
       or_secondary(km.scroll_up_one, "scroll list up by one"),
       or_secondary(km.scroll_down_many, "scroll list down by many"),
       or_secondary(km.scroll_up_many, "scroll list by up many"),
       or_secondary(km.scroll_end, "scroll list to end"),
       or_secondary(km.scroll_start, "scroll list to start"),
       <<space, button_item("enter"), button_desc("send docker container command")>>,
       or_secondary(km.exec, "exec into a container"),
       or_secondary(km.toggle_help, "toggle this help information - or click heading"),
       or_secondary(km.toggle_help, "save logs to file"),
       or_secondary(km.toggle_mouse_capture,
                    "toggle mouse capture - if disabled, text on screen can be selected & copied"),
       or_secondary(km.filter_mode, "enter filter mode"),
       or_secondary(km.sort_reset, "reset container sorting"),
       or_secondary(km.sort_by_name, "sort containers by name"),
       or_secondary(km.sort_by_state, "sort containers by state"),
       or_secondary(km.sort_by_status, "sort containers by status"),
       or_secondary(km.sort_by_cpu, "sort containers by cpu"),
       or_secondary(km.sort_by_memory, "sort containers by memory"),
       or_secondary(km.sort_by_id, "sort containers by id"),
       or_secondary(km.sort_by_image, "sort containers by image"),
       or_secondary(km.sort_by_rx, "sort containers by rx"),
       or_secondary(km.sort_by_tx, "sort containers by tx"),
       or_secondary(km.clear, "close dialog"),
       or_secondary(km.quit, "quit at any time") >>

\* draw choosing the built-in listing whenever the listed keys are the default
\* ones
help_draw_by_listed_keys(keymap) ==
    [title |-> "VERSION",
     name |-> gen_name,
     description |-> gen_description,
     buttons |-> IF gen_custom_keymap_info(keymap) = gen_custom_keymap_info(DefaultKeymap)
                 THEN gen_keymap_info
                 ELSE gen_custom_keymap_info(keymap),
     final |-> gen_final]

\* draw of help.rs: the four paragraphs of the popup, in the order in which
\* they are laid out, and the title of the block
help_draw(keymap) ==
    [title |-> "VERSION",
     name |-> gen_name,
     description |-> gen_description,
     buttons |-> IF keymap = DefaultKeymap
                 THEN gen_keymap_info
                 ELSE gen_custom_keymap_info(keymap),
     final |-> gen_final]

\* No popup on the screen
NoHelp == [title |-> None, name |-> <<>>, description |-> <<>>, buttons |-> <<>>,
           final |-> <<>>]

\* The help popup is drawn with the keymap in use
HelpBox ==
    /\ ui.help = NoHelp
    /\ ui' = [ui EXCEPT !.help = help_draw(ui.keymap)]
    /\ UNCHANGED <<term, overlayVars, input_chan>>
    /\ UiOnly

----------------------------------------------------------------------------
(* Specifications *)

\* Ui as constructed, with the keymap of the configuration
UiNew(km) ==
    [pc |-> "init_raw", ret |-> "term_new", locks |-> {},
     fd |-> [exec |-> FALSE, delete_confirm |-> NoId, has_error |-> None,
             sorted_by |-> NoSort, selected_panel |-> "Containers",
             info_text |-> None],
     ev |-> NoMsg, session |-> None, exit |-> None,
     reset_ops |-> <<>>, resets |-> 0, execs |-> 0, sessions |-> 0,
     status |-> None, seconds |-> 0, now |-> 0, drawn |-> <<>>,
     polled |-> NoEvent, drew |-> None,
     keymap |-> km, help |-> NoHelp]

\* InputHandler::init and what the two stores hold besides the lists, as
\* constructed
InitStores ==
    /\ show_error = FALSE
    /\ error = None
    /\ sorted_by = NoSort
    /\ show_help = FALSE
    /\ info_box = None
    /\ info_by = 0
    /\ pc = "recv"
    /\ msg = NoMsg
    /\ loc_show_error = FALSE
    /\ loc_show_info = FALSE
    /\ option_command = None
    /\ option_id = NoId
    /\ header_intersects = None
    /\ send_result = None
    /\ page_i = 0
    /\ mouse_capture = TRUE
    /\ info_sleep = 0
    /\ is_running = TRUE
    /\ timers = <<>>
    /\ now = 0
    /\ docker_chan = <<>>
    /\ docker_closed = FALSE
    /\ handled = 0
    /\ toggle_log = <<>>
    /\ clears = <<>>
    /\ nav_from = <<0, 0, 0>>
    /\ status_exec = FALSE
    /\ exec_mode = None
    /\ delete_container = NoId
    /\ status_connect = FALSE
    /\ area_map = "empty"
    /\ term = [raw |-> FALSE, alt |-> FALSE, mouse |-> "off"]
    /\ input_chan = <<>>

\* The same with Ui as constructed under the default keymap
InitOther ==
    /\ InitStores
    /\ ui = UiNew(DefaultKeymap)

\* The state after construction: no containers yet
Init ==
    /\ containers = <<>>
    /\ cont_sel = 0
    /\ log_len = 0
    /\ log_sel = 0
    /\ selected_panel = "Containers"
    /\ InitOther

\* Every key and mouse message, up to MaxMsgs of them, with the driver
Next ==
    \/ Recv(AllKeyMsgs \cup AllMouseMsgs, TRUE)
    \/ ReadError
    \/ ReadHelp
    \/ ButtonPress
    \/ ClearRemove
    \/ MAbort
    \/ MSpawn
    \/ MFlip
    \/ PageStep
    \/ EnterCommand
    \/ EnterId
    \/ Send
    \/ MousePress
    \/ MouseSort
    \/ MousePanel
    \/ CheckRunning
    \/ DriverSetError
    \/ DriverUpdate
    \/ DriverRecv
    \/ DriverDrop

Spec == Init /\ [][Next]_vars

\* The sort scenario: the sort keys, the reset key, clicks anywhere, help and
\* quit, any number of them
SortMsgs ==
    {KeyMsg(k) : k \in SortKeys \cup {"0", "h", "q"}}
        \cup {MouseMsg("DownLeft", p) : p \in Positions}

NextSort ==
    \/ Recv(SortMsgs, FALSE)
    \/ ReadError
    \/ ReadHelp
    \/ ButtonPress
    \/ MousePress
    \/ MouseSort
    \/ MousePanel
    \/ CheckRunning

SpecSort == Init /\ [][NextSort]_vars

\* The banner scenario: toggles of the mouse capture (up to MaxToggles), the
\* keys that open and leave the modes a toggle can be made in, the timer
\* tasks and the clock
TimerMsgs == {KeyMsg(k) : k \in {"m", "c", "h"}}

NextTimer ==
    \/ Recv(TimerMsgs, FALSE)
    \/ ReadError
    \/ ReadHelp
    \/ ButtonPress
    \/ ClearRemove
    \/ MAbort
    \/ MSpawn
    \/ MFlip
    \/ CheckRunning
    \/ TimerTask
    \/ Tick

SpecTimer == Init /\ [][NextTimer]_vars

\* The dispatch scenario: panel cycling, Enter and quit, any number of them,
\* with the driver updating the containers and draining the channel or not
DispatchMsgs == {KeyMsg(k) : k \in {"Tab", "Enter", "q"}}

NextDispatch ==
    \/ Recv(DispatchMsgs, FALSE)
    \/ ReadError
    \/ ReadHelp
    \/ ButtonPress
    \/ EnterCommand
    \/ EnterId
    \/ Send
    \/ CheckRunning
    \/ DriverUpdate
    \/ DriverRecv
    \/ DriverDrop

SpecDispatch == Init /\ [][NextDispatch]_vars

\* The navigation scenario: lists of up to MaxItems items with any item
\* selected, any panel selected, and the single-step and page-step keys
InitNav ==
    /\ \E n \in 0..MaxItems, st \in States :
          /\ \E c \in 1..Len(ControlsOf(st)) :
                containers = [i \in 1..n |-> [id |-> i, st |-> st, cmd |-> c]]
          /\ log_len = n
          /\ \E s \in (IF n = 0 THEN {0} ELSE 1..n) : cont_sel = s /\ log_sel = s
    /\ selected_panel \in Panels
    /\ InitOther

NavMsgs == {KeyMsg(k) : k \in {"Up", "Down", "PageUp", "PageDown"}}

NextNav ==
    \/ RecvNav(NavMsgs)
    \/ ReadError
    \/ ReadHelp
    \/ ButtonPress
    \/ PageStep
    \/ CheckRunning

SpecNav == InitNav /\ [][NextNav]_vars

\* The navigation scenario with every navigation action: single steps, page
\* steps, Home and End, the wheel, and the two panel keys
NavAllMsgs ==
    {KeyMsg(k) : k \in {"Up", "k", "Down", "j", "PageUp", "PageDown", "Home", "End",
                        "Tab", "BackTab"}}
        \cup {MouseMsg(k, 0) : k \in {"ScrollUp", "ScrollDown"}}

NextNavAll ==
    \/ RecvNav(NavAllMsgs)
    \/ ReadError
    \/ ReadHelp
    \/ ButtonPress
    \/ PageStep
    \/ MousePress
    \/ CheckRunning

SpecNavAll == InitNav /\ [][NextNavAll]_vars

\* The key presses the terminal delivers in the render loop's scenarios
UiMsgs == {KeyMsg(k) : k \in {"m", "q"}}

\* The render loop from the setup of the terminal to its end, with the
\* overlays, the container list and the running flag changing under it, and
\* nobody taking the forwarded messages
NextUi ==
    \/ InitRaw
    \/ InitAlt
    \/ InitMouse
    \/ TermNew
    \/ DrawUi
    \/ LoopCheck
    \/ FdLock
    \/ FdCopy
    \/ ExecMode
    \/ ExecRun
    \/ ExecSessionEnds
    \/ ExecSetError
    \/ ExecAfter
    \/ ExecInit
    \/ ExecDel
    \/ ResetClear
    \/ ResetLeave
    \/ ResetRaw
    \/ ResetCursor
    \/ ResetShow
    \/ Draw
    \/ DrawDeleteLock
    \/ DrawDeleteConfirm
    \/ DrawDeleteClear
    \/ DrawFlush
    \/ Poll(UiMsgs)
    \/ Resize
    \/ Forward
    \/ SetExec
    \/ SetDelete
    \/ Shutdown
    \/ DriverUpdate

SpecUi == Init /\ [][NextUi]_vars

\* The render loop and the input handler behind the input channel
NextUiInput ==
    \/ InitRaw
    \/ InitAlt
    \/ InitMouse
    \/ TermNew
    \/ DrawUi
    \/ LoopCheck
    \/ FdLock
    \/ FdCopy
    \/ ExecMode
    \/ ExecRun
    \/ ExecSessionEnds
    \/ ExecSetError
    \/ ExecAfter
    \/ ExecInit
    \/ ExecDel
    \/ ResetClear
    \/ ResetLeave
    \/ ResetRaw
    \/ ResetCursor
    \/ ResetShow
    \/ Draw
    \/ DrawFlush
    \/ Poll(UiMsgs)
    \/ Resize
    \/ Forward
    \/ RecvQueued
    \/ ReadError
    \/ ReadHelp
    \/ ButtonPress
    \/ MAbort
    \/ MSpawn
    \/ MFlip
    \/ CheckRunning
    \/ SetExec

SpecUiInput == Init /\ [][NextUiInput]_vars

\* What the terminal delivers in the main-loop scenario: presses of the quit,
\* help, panel and a sort key, a key release, mouse events that are forwarded
\* and that are not, a resize and a focus change
LoopEvents ==
    {KeyEvent(k, "Press") : k \in {"q", "h", "Tab", "1"}}
        \cup {KeyEvent("q", "Release"), MouseEvent("ScrollDown", 0),
              MouseEvent("DownRight", 0), MouseEvent("Moved", 0),
              ResizeEvent, FocusEvent}

\* The main loop with the exec hand-off, and the input handler behind the
\* input channel, up to MaxMsgs forwarded messages
NextLoop ==
    \/ InitRaw
    \/ InitAlt
    \/ InitMouse
    \/ TermNew
    \/ DrawUi
    \/ LoopCheck
    \/ FdLock
    \/ FdCopy
    \/ ExecMode
    \/ ExecRun
    \/ ExecSessionEnds
    \/ ExecSetError
    \/ ExecAfter
    \/ ExecInit
    \/ ExecDel
    \/ ResetClear
    \/ ResetLeave
    \/ ResetRaw
    \/ ResetCursor
    \/ ResetShow
    \/ Draw
    \/ DrawFlush
    \/ PollEvent(LoopEvents, MaxMsgs)
    \/ Resize
    \/ Forward
    \/ RecvQueued
    \/ RecvClosed
    \/ ReadError
    \/ ReadHelp
    \/ ButtonPress
    \/ MousePress
    \/ CheckRunning
    \/ SetExec

SpecLoop == Init /\ [][NextLoop]_vars

\* What the terminal delivers in the shutdown scenario: presses of Tab, Enter
\* and the quit key
StopEvents == {KeyEvent(k, "Press") : k \in {"Tab", "Enter", "q"}}

\* The shutdown scenario: both loops from the construction of Ui, with either
\* loop of draw_ui, key presses up to MaxMsgs, the driver at the far end of
\* the command channel, and the running flag cleared by the quit key or from
\* outside
NextStop ==
    \/ InitRaw
    \/ InitAlt
    \/ InitMouse
    \/ TermNew
    \/ DrawUi
    \/ ErrCheck
    \/ ErrDraw
    \/ Second
    \/ LoopCheck
    \/ FdLock
    \/ FdCopy
    \/ Draw
    \/ DrawFlush
    \/ PollEvent(StopEvents, MaxMsgs)
    \/ Forward
    \/ ResetClear
    \/ ResetLeave
    \/ ResetRaw
    \/ ResetCursor
    \/ ResetShow
    \/ RecvQueued
    \/ RecvClosed
    \/ ReadError
    \/ ReadHelp
    \/ ButtonPress
    \/ EnterCommand
    \/ EnterId
    \/ Send
    \/ CheckRunning
    \/ DriverUpdate
    \/ DriverRecv
    \/ DriverDrop
    \/ SetConnect
    \/ Shutdown

SpecStop == Init /\ [][NextStop]_vars

\* The bindings a keymap of the help scenario gives to the four actions it
\* varies: that of the default keymap, one with and one without a secondary key
Bindings(f) == {DefaultKeymap[f], <<"Home", None>>, <<"PageDown", "Delete">>}

Keymaps ==
    {[DefaultKeymap EXCEPT !.toggle_help = a, !.save_logs = b, !.quit = c,
                           !.delete_confirm = d] :
        a \in Bindings("toggle_help"), b \in Bindings("save_logs"),
        c \in Bindings("quit"), d \in Bindings("delete_confirm")}

\* The help scenario: the popup drawn with any keymap of Keymaps
InitHelp ==
    /\ containers = <<>>
    /\ cont_sel = 0
    /\ log_len = 0
    /\ log_sel = 0
    /\ selected_panel = "Containers"
    /\ InitStores
    /\ \E km \in Keymaps : ui = UiNew(km)

NextHelp ==
    \/ HelpBox

SpecHelp == InitHelp /\ [][NextHelp]_vars

\* The locking scenario: navigation keys handled with the two locks taken one
\* by one, beside the render loop with its snapshot, the exec hand-off and
\* the delete confirmation, each of its locks taken in a step of its own
LockMsgs == {KeyMsg(k) : k \in {"Down", "Home"}}

NextLocks ==
    \/ InitRaw
    \/ InitAlt
    \/ InitMouse
    \/ TermNew
    \/ DrawUi
    \/ LoopCheck
    \/ FdLockFirst
    \/ FdLockSecond
    \/ FdCopy
    \/ ExecMode
    \/ ExecRun
    \/ ExecSessionEnds
    \/ ExecErrorLock
    \/ ExecErrorSet
    \/ ExecAfter
    \/ ExecInit
    \/ ExecDel
    \/ ResetClear
    \/ ResetLeave
    \/ ResetRaw
    \/ ResetCursor
    \/ ResetShow
    \/ Draw
    \/ DrawDeleteLock
    \/ DrawDeleteConfirm
    \/ DrawDeleteClear
    \/ DrawFlush
    \/ PollEvent({ResizeEvent}, 0)
    \/ Resize
    \/ Recv(LockMsgs, TRUE)
    \/ ReadError
    \/ ReadHelp
    \/ ButtonPressNav
    \/ NavLockGui
    \/ CheckRunning
    \/ SetExec
    \/ SetDelete
    \/ DriverUpdate

SpecLocks == Init /\ [][NextLocks]_vars

\* The pairing scenario: a running and an exited container, either of them
\* selected, the Commands panel selected and any command highlighted; Enter
\* is handled while the driver finds containers gone
PairState(id) == IF id = 1 THEN "Running" ELSE "Exited"

InitPair ==
    /\ \E c \in [1..2 -> 1..2] :
          containers = [i \in 1..2 |-> [id |-> i, st |-> PairState(i), cmd |-> c[i]]]
    /\ cont_sel \in 1..2
    /\ log_len = 0
    /\ log_sel = 0
    /\ selected_panel = "Commands"
    /\ InitOther

NextPair ==
    \/ Recv(DispatchMsgs, FALSE)
    \/ ReadError
    \/ ReadHelp
    \/ ButtonPress
    \/ EnterCommand
    \/ EnterId
    \/ Send
    \/ CheckRunning
    \/ DriverRemove
    \/ DriverRecv

SpecPair == InitPair /\ [][NextPair]_vars

\* The startup of Ui: the setup of the terminal, the status read of draw_ui,
\* then err_loop with the clock or gui_loop, to the end of Ui::start, with
\* the connection failing at any time or not at all
NextStartup ==
    \/ InitRaw
    \/ InitAlt
    \/ InitMouse
    \/ TermNew
    \/ DrawUi
    \/ ErrCheck
    \/ ErrDraw
    \/ Second
    \/ LoopCheck
    \/ FdLock
    \/ FdCopy
    \/ Draw
    \/ DrawFlush
    \/ Poll(UiMsgs)
    \/ Resize
    \/ Forward
    \/ ResetClear
    \/ ResetLeave
    \/ ResetRaw
    \/ ResetCursor
    \/ ResetShow
    \/ SetConnect
    \/ Shutdown

SpecStartup == Init /\ [][NextStartup]_vars

----------------------------------------------------------------------------
(* Properties *)

\* A step of the input handler (every one moves its position or its loop counter)
HandlerStep == pc' # pc \/ page_i' # page_i

\* What a key or a click can change: both stores, the running flag, the
\* handler's mouse-capture flag, the timer tasks and the command channel
obsVars == <<appVars, guiVars, is_running, mouse_capture, timerVars, chanVars>>

\* The message in hand is being handled with the error flag found set
InErrorMode ==
    \/ pc = "read_error" /\ show_error
    \/ pc \notin {"recv", "read_error"} /\ loc_show_error

\* The key in hand is being handled with help found set and error found unset
InHelpMode ==
    /\ pc \notin {"recv", "read_error", "read_help"}
    /\ msg.kind = "key"
    /\ ~loc_show_error
    /\ loc_show_info

\* The key in hand is being handled with neither flag found set
InNormalMode ==
    /\ pc \notin {"recv", "read_error", "read_help"}
    /\ ~loc_show_error
    /\ ~loc_show_info

\* C1: a key other than 'q' and 'c' that is handled with the error flag set
\* changes neither store, nor the running flag, the mouse-capture flag, the
\* banner timer or the command channel.
C1_ErrorModeKeysChangeNothing ==
    [][(HandlerStep /\ InErrorMode /\ msg.kind = "key" /\ msg.code \notin {"q", "c"})
          => UNCHANGED obsVars]_vars

C1_Witness ==
    /\ pc = "done"
    /\ loc_show_error
    /\ show_help
    /\ msg = KeyMsg("m")

\* C2: a key other than 'q', 'h' and 'm' that is handled with help set and
\* error unset changes nothing: no sort, navigation, panel change or dispatch.
C2_HelpModeKeysChangeNothing ==
    [][(HandlerStep /\ InHelpMode /\ msg.code \notin {"q", "h", "m"})
          => UNCHANGED obsVars]_vars

C2_Witness ==
    /\ pc = "done"
    /\ loc_show_info
    /\ ~loc_show_error
    /\ msg = KeyMsg("Tab")

\* C3 as stated: once the error flag is set, no step of the handler that is
\* not routed in Error mode changes a store.
C3_NoOtherModeActsOnceErrorIsSet ==
    [][(HandlerStep /\ show_error /\ <<appVars, guiVars>>' # <<appVars, guiVars>>)
          => InErrorMode]_vars

\* C3 as amended: a message whose handling finds the error flag set is routed
\* in Error mode, whatever the help flag: it leaves the sort, the cursors, the
\* interface store (help included), the mouse-capture flag, the timers and the
\* command channel alone; only 'q' clears the running flag and only 'c'
\* touches the error.
C3_ErrorModeTakesPrecedence ==
    [][(HandlerStep /\ InErrorMode)
          => /\ UNCHANGED <<sorted_by, cursorVars, guiVars, mouse_capture, timerVars,
                            chanVars>>
             /\ is_running' # is_running => msg = KeyMsg("q")
             /\ <<show_error, error>>' # <<show_error, error>> => msg = KeyMsg("c")]_vars

C3_Witness ==
    /\ pc = "done"
    /\ loc_show_error
    /\ loc_show_info
    /\ show_help
    /\ msg = KeyMsg("h")

\* The handler is about to run sort(H): a sort key in Normal mode, or a click
\* that hit the header H
SortStepOn(H) ==
    \/ pc = "button_press" /\ InNormalMode /\ msg.code \in SortKeys
          /\ H = HeaderOfKey(msg.code)
    \/ pc = "mouse_sort" /\ H = header_intersects

\* C4: the sort action on H turns (H, Descending) into (H, Ascending) and
\* anything else into (H, Descending), in the one step that holds the lock.
C4_SortToggle ==
    [][\A H \in HeaderSet :
          (HandlerStep /\ SortStepOn(H))
             => sorted_by' = IF sorted_by = <<H, Desc>> THEN <<H, Asc>>
                                                        ELSE <<H, Desc>>]_vars

C4_Witness ==
    /\ pc = "done"
    /\ msg = KeyMsg("6")
    /\ sorted_by = <<"Name", Asc>>

\* C5: sort actions on the header already sorted by alternate the direction,
\* a sort action on another header yields Descending, and the sort becomes
\* unsorted only by the reset key.
C5_SortCycle ==
    [][/\ \A H \in HeaderSet :
             (HandlerStep /\ SortStepOn(H))
                => /\ sorted_by'[1] = H
                   /\ sorted_by'[2] \in {Asc, Desc}
                   /\ sorted_by[1] = H => sorted_by'[2] # sorted_by[2]
                   /\ sorted_by[1] # H => sorted_by'[2] = Desc
       /\ (sorted_by # NoSort /\ sorted_by' = NoSort)
             => (pc = "button_press" /\ msg = KeyMsg("0"))]_vars

C5_Witness ==
    /\ pc = "mouse_panel"
    /\ header_intersects = "Cpu"
    /\ sorted_by = <<"Cpu", Asc>>

\* Toggle i + 1 was made less than the clear delay after toggle i
WithinWindow(i) ==
    /\ i + 1 <= Len(toggle_log)
    /\ toggle_log[i + 1].at - toggle_log[i].at < InfoDelay

ClearsOf(i) == {k \in 1..Len(clears) : clears[k].timer = i}

\* C6: of two toggles within the clear delay, the first one's timer never
\* clears the banner, the second one's timer clears it once, InfoDelay after
\* the second toggle, and until then the banner shows the text the second
\* toggle published.
C6_TwoTogglesOneClear ==
    \A i \in 1..(Len(toggle_log) - 1) :
        WithinWindow(i) =>
            /\ ClearsOf(i) = {}
            /\ Cardinality(ClearsOf(i + 1)) <= 1
            /\ \A k \in ClearsOf(i + 1) : clears[k].at = toggle_log[i + 1].at + InfoDelay
            /\ \A k \in 1..Len(clears) : clears[k].gen = i + 1 => clears[k].timer = i + 1
            /\ (Len(toggle_log) = i + 1 /\ Len(timers) = i + 1)
                  => /\ now > toggle_log[i + 1].at + InfoDelay => ClearsOf(i + 1) # {}
                     /\ (toggle_log[i + 1].ok /\ ClearsOf(i + 1) = {})
                           => info_box = toggle_log[i + 1].txt

\* C7: no timer clears a banner that a later toggle published.
C7_NoStaleTimerClearsFresherBanner ==
    \A k \in 1..Len(clears) : clears[k].gen <= clears[k].timer

Outstanding == {i \in 1..Len(timers) : timers[i].st = "sleeping"}

\* C8: at most one timer is outstanding (in its sleep: scheduled, not
\* cancelled, not fired); when a toggle stores a new timer the stored one is
\* no longer outstanding; cancelling a timer that has fired changes nothing.
C8_OneOutstandingTimer ==
    /\ [](Cardinality(Outstanding) <= 1)
    /\ [][/\ (HandlerStep /\ pc = "m_spawn") => info_sleep \notin Outstanding
          /\ (HandlerStep /\ pc = "m_abort" /\ info_sleep # 0
                /\ timers[info_sleep].st \in {"running", "done"})
                => UNCHANGED <<obsVars, now>>]_vars

C8_Witness ==
    /\ pc = "m_spawn"
    /\ Len(timers) = 2
    /\ timers[1].st = "done"
    /\ timers[2].st = "aborted"

\* The DockerMessage a DockerControls value stands for
KindOfCommand ==
    [Pause |-> "DockerMessage::Pause", Unpause |-> "DockerMessage::Unpause",
     Start |-> "DockerMessage::Start", Stop |-> "DockerMessage::Stop",
     Restart |-> "DockerMessage::Restart"]

\* C9: only the Enter key in Normal mode sends on the command channel, only
\* with the Commands panel selected, a command highlighted and a container
\* selected, and then one message: the highlighted command's kind with the
\* selected container's id.
C9_CommandDispatch ==
    [][/\ Len(docker_chan') > Len(docker_chan)
             => /\ pc = "send" /\ msg = KeyMsg("Enter") /\ InNormalMode
                /\ option_command \in DOMAIN KindOfCommand
                /\ option_id # NoId
                /\ docker_chan' =
                      Append(docker_chan, <<KindOfCommand[option_command], option_id>>)
       /\ (HandlerStep /\ pc = "button_press" /\ InNormalMode /\ msg = KeyMsg("Enter"))
             => /\ selected_panel # "Commands" => pc' = "done"
                /\ selected_panel = "Commands" => pc' = "enter_command"
       /\ (HandlerStep /\ pc = "enter_command")
             => /\ option_command' = get_docker_command
                /\ get_docker_command = None => pc' = "done"
                /\ get_docker_command # None => pc' = "enter_id"
       /\ (HandlerStep /\ pc = "enter_id")
             => /\ option_id' = get_selected_container_id
                /\ get_selected_container_id = NoId => pc' = "done"
                /\ get_selected_container_id # NoId => pc' = "send"
       /\ (HandlerStep /\ pc = "send" /\ ~docker_closed)
             => Len(docker_chan') = Len(docker_chan) + 1]_vars

C9_Witness ==
    /\ pc = "done"
    /\ msg = KeyMsg("Enter")
    /\ send_result = "Ok"
    /\ docker_chan = <<<<"DockerMessage::Unpause", 1>>>>

\* C10: a send on a channel whose receiver was dropped changes nothing (no
\* error, no store, not the running flag), and the handler goes on to its
\* next receive.
C10_DroppedReceiverIsIgnored ==
    [][/\ (HandlerStep /\ pc = "send" /\ docker_closed)
             => (UNCHANGED obsVars /\ pc' = "done")
       /\ (HandlerStep /\ pc = "done" /\ send_result = "Err" /\ is_running)
             => pc' = "recv"]_vars

C10_Witness ==
    /\ pc = "done"
    /\ msg = KeyMsg("Enter")
    /\ send_result = "Err"
    /\ docker_closed
    /\ is_running

\* C11: the dispatch of a command never makes the input coordinator wait:
\* whenever the coordinator is at the send, the send completes without the
\* consumer taking anything from the channel.
C11_DispatchNeverBlocks ==
    pc = "send" => (docker_closed \/ Len(docker_chan) < DockerCap)

\* The cursor of the selected panel, of three cursors
CursorOf(cs) ==
    CASE selected_panel = "Containers" -> cs[1]
      [] selected_panel = "Logs" -> cs[2]
      [] OTHER -> cs[3]

\* The number of items of the list of the selected panel
LenOf ==
    CASE selected_panel = "Containers" -> Len(containers)
      [] selected_panel = "Logs" -> log_len
      [] OTHER -> IF cont_sel = 0 \/ cont_sel > Len(containers) THEN 0
                  ELSE Len(ControlsOf(containers[cont_sel].st))

DirOf(code) == IF code \in {"PageUp", "Up", "k"} THEN "previous" ELSE "next"

RECURSIVE Steps(_, _, _, _)
Steps(n, dir, sel, len) ==
    IF n = 0 THEN sel ELSE Steps(n - 1, dir, Move(dir, sel, len), len)

\* A page key has been handled in Normal mode
PageHandled ==
    /\ pc = "done"
    /\ msg.code \in {"PageUp", "PageDown"}
    /\ InNormalMode

\* C12 as stated: a page key moves the cursor of the selected panel by 7
\* times the distance the single-step key moves it from the same state.
C12_PageIsSevenTimesTheDistance ==
    PageHandled =>
        CursorOf(Cursors) - CursorOf(nav_from)
            = PageSteps * (Move(DirOf(msg.code), CursorOf(nav_from), LenOf)
                             - CursorOf(nav_from))

\* C12 (amended): a page key leaves the cursor of the selected panel where
\* 7 single steps in its direction take it from the same state: 7 items
\* further when the list has them, at the end of the list otherwise.
C12_PageIsSevenSingleSteps ==
    PageHandled =>
        LET from == CursorOf(nav_from)
            dir == DirOf(msg.code)
            to == CursorOf(Cursors)
        IN /\ to = Steps(PageSteps, dir, from, LenOf)
           /\ (dir = "next" /\ from >= 1 /\ from + PageSteps <= LenOf)
                 => to = from + PageSteps
           /\ (dir = "previous" /\ from - PageSteps >= 1) => to = from - PageSteps
           /\ (dir = "next" /\ from >= 1 /\ from + PageSteps > LenOf) => to = LenOf
           /\ (dir = "previous" /\ from >= 1 /\ from - PageSteps < 1) => to = 1

\* A page down over 7 items of the container list, none of them the last
C12_Witness ==
    /\ PageHandled
    /\ msg.code = "PageDown"
    /\ selected_panel = "Containers"
    /\ CursorOf(nav_from) = 1
    /\ cont_sel = 1 + PageSteps


\* C13 as stated: in a process run whose render loop has ended (the running
\* flag was cleared, or a draw failed), reset_terminal was invoked exactly
\* once.
C13_RestoredExactlyOncePerRun ==
    (ui.pc = "ended" /\ ui.exit \in {"quit", "draw_error"}) => ui.resets = 1

\* C13 (amended): on every exit path of the render loop reset_terminal is
\* invoked, exactly once after the loop has ended; over the whole run it is
\* invoked once more for every exec hand-off and once more for every
\* external session run.
C13_RestoredOnceAfterTheLoop ==
    /\ [][(ui.exit = None /\ ui'.exit \in {"quit", "draw_error"})
             => (ui'.pc = "reset_clear" /\ ui'.ret = "ended"
                   /\ ui'.resets = ui.execs + ui.sessions)]_vars
    /\ [](ui.pc = "ended" => /\ ui.exit \in {"quit", "draw_error", "setup_error"}
                             /\ ui.exit = "setup_error" => ui.resets = 0
                             /\ ui.exit # "setup_error"
                                   => ui.resets = 1 + ui.execs + ui.sessions)

\* The loop has ended on a draw error after an exec hand-off with a session
C13_Witness ==
    /\ ui.pc = "ended"
    /\ ui.exit = "draw_error"
    /\ ui.sessions = 1
    /\ ui.resets = 3

ResetPcs == {"reset_clear", "reset_leave", "reset_raw", "reset_cursor", "reset_show"}

\* reset_terminal returns to its caller
ResetReturns == ui.pc \in ResetPcs /\ ui'.pc \notin ResetPcs

\* C14: every invocation of reset_terminal performs all its steps, in their
\* order (clear, leave the alternate screen, disable mouse capture, disable
\* raw mode, restore the cursor position, show the cursor), whatever an
\* earlier step reports.
C14_RestorationIsUnconditional ==
    [][ResetReturns => ui'.reset_ops = ResetOps]_vars

\* The terminal as the dashboard sets it up at startup
TerminalSetUp == term = [raw |-> TRUE, alt |-> TRUE, mouse |-> "restricted"]

\* The terminal fully released
TerminalReleased == term = [raw |-> FALSE, alt |-> FALSE, mouse |-> "off"]

\* C15: while the external session runs the terminal is fully released
\* (alternate screen left, mouse capture disabled, raw mode disabled).
C15_SessionOnlyOnReleasedTerminal ==
    ui.pc = "session" => TerminalReleased

\* C16: at the end of an exec hand-off the terminal is set up as at startup
\* and the Exec overlay is cleared.
C16_TerminalSetUpAfterHandOff ==
    [][(ui.pc = "exec_del" /\ ui'.pc # "exec_del")
          => (TerminalSetUp' /\ ~status_exec')]_vars

\* C17: an error of the external session is recorded as the application
\* error and not propagated: exec goes on, the running flag is not touched,
\* and the loop ends for no other reason than a cleared running flag or a
\* failed draw.
C17_ExecErrorIsRecordedNotPropagated ==
    /\ [][(ui.pc = "session" /\ ui'.pc # "session" /\ ui'.session = "Err")
             => (ui'.pc = "exec_error" /\ ui'.exit = None /\ UNCHANGED is_running)]_vars
    /\ [][(ui.pc = "exec_error" /\ ui'.pc # "exec_error")
             => (error' = "Exec" /\ show_error' /\ ui'.pc = "exec_after"
                   /\ ui'.exit = None /\ UNCHANGED is_running)]_vars
    /\ [][(ui.exit = None /\ ui'.exit # None)
             => \/ ui'.exit = "quit" /\ ~is_running
                \/ ui'.exit = "draw_error" /\ ui.pc = "draw_flush"
                \/ ui'.exit = "setup_error" /\ ui.ret = "term_new"]_vars

\* After a failed session the loop has drawn a frame and forwards a key
C17_Witness ==
    /\ ui.session = "Err"
    /\ ui.pc = "forward"
    /\ error = "Exec"
    /\ show_error
    /\ is_running
    /\ ui.exit = None

\* Positions of Ui at which it renders or operates the terminal
RenderPcs == {"draw", "draw_delete_confirm", "draw_flush"}
TerminalPcs ==
    ResetPcs \cup {"init_raw", "init_alt", "init_mouse", "term_new", "exec_run",
                   "session", "exec_after", "draw_flush", "poll", "resize"}

C19_HandlerKeepsOffTheTerminal ==
    [][(toggle_log' # toggle_log) => ui.pc \notin RenderPcs \cup {"session"}]_vars

\* C20: the render loop never waits on forwarding a message: at the send the
\* input channel has room (or its receiver is gone).
C20_ForwardNeverWaits ==
    ui.pc = "forward" => (pc = "stopped" \/ Len(input_chan) < InputCap)

\* The mouse event in hand finds the error flag or the help overlay set
MouseBlocked ==
    /\ msg.kind = "mouse"
    /\ \/ InErrorMode
       \/ pc = "read_help" /\ show_help
       \/ pc \notin {"recv", "read_error", "read_help"} /\ loc_show_info

\* The mouse event in hand is in mouse_press
MouseDispatched ==
    /\ msg.kind = "mouse"
    /\ pc \in {"mouse_press", "mouse_sort", "mouse_panel"}

\* C26: a mouse event that finds the error flag or the help overlay set
\* changes nothing; otherwise a wheel event is one single step previous / next
\* on the selected panel, a left press changes the sort only when it hits a
\* header (the sort toggle on that header), and any other kind changes nothing.
C26_MouseDispatch ==
    [][/\ (HandlerStep /\ MouseBlocked)
             => (UNCHANGED obsVars /\ ~MouseDispatched')
       /\ (HandlerStep /\ msg.kind = "mouse" /\ pc = "read_help" /\ ~MouseBlocked)
             => pc' = "mouse_press"
       /\ (HandlerStep /\ pc = "mouse_press" /\ msg.code \in {"ScrollUp", "ScrollDown"})
             => /\ CursorOf(Cursors)'
                      = Move(IF msg.code = "ScrollUp" THEN "previous" ELSE "next",
                             CursorOf(Cursors), LenOf)
                /\ pc' = "done"
                /\ UNCHANGED <<show_error, error, sorted_by, guiVars, is_running,
                               mouse_capture, timerVars, chanVars>>
       /\ (HandlerStep /\ pc = "mouse_press" /\ msg.code = "DownLeft")
             => /\ pc' = IF header_intersect(msg.pos) # None THEN "mouse_sort"
                                                           ELSE "mouse_panel"
                /\ UNCHANGED obsVars
       /\ (HandlerStep /\ msg.kind = "mouse" /\ sorted_by' # sorted_by)
             => LET H == header_intersect(msg.pos)
                IN /\ msg.code = "DownLeft"
                   /\ pc = "mouse_sort"
                   /\ H # None
                   /\ sorted_by' = IF sorted_by = <<H, Desc>> THEN <<H, Asc>>
                                                              ELSE <<H, Desc>>
       /\ (HandlerStep /\ pc = "mouse_press"
             /\ msg.code \notin {"ScrollUp", "ScrollDown", "DownLeft"})
             => (UNCHANGED obsVars /\ pc' = "done")]_vars

\* A click on a header has been handled with the help overlay set
C26_Witness ==
    /\ pc = "done"
    /\ msg = MouseMsg("DownLeft", 3)
    /\ loc_show_info
    /\ ~loc_show_error
    /\ sorted_by = NoSort

\* The handler makes the first step of m_button: the terminal side effect
ToggleStep == HandlerStep /\ pc = "button_press" /\ pc' = "m_abort"

\* The latest toggle, as recorded
LastToggle == toggle_log[Len(toggle_log)]

\* C27: a toggle whose side effect succeeds publishes the banner of the new
\* capture state (disabled when capture was on, enabled when it was off) and
\* records no error; a toggle whose side effect fails records the typed
\* mouse-capture error and leaves the banner as it is.
C27_ToggleBannerOrError ==
    [][ToggleStep =>
          /\ msg = KeyMsg("m")
          /\ Len(toggle_log') = Len(toggle_log) + 1
          /\ LastToggle'.ok
                => /\ info_box' = (IF mouse_capture THEN "mouse capture disabled"
                                                    ELSE "mouse capture enabled")
                   /\ term'.mouse = (IF mouse_capture THEN "off" ELSE "full")
                   /\ UNCHANGED <<show_error, error>>
          /\ ~LastToggle'.ok
                => /\ error' = (IF mouse_capture THEN "MouseCapture(false)"
                                                 ELSE "MouseCapture(true)")
                   /\ show_error'
                   /\ UNCHANGED <<info_box, info_by, term>>]_vars

\* A failed toggle after a successful one: the error is recorded and the
\* banner of the first toggle is still there
C27_Witness ==
    /\ pc = "m_abort"
    /\ Len(toggle_log) = 2
    /\ toggle_log[1].ok
    /\ ~toggle_log[2].ok
    /\ info_box = "mouse capture disabled"
    /\ error = "MouseCapture(true)"
    /\ show_error

\* The message in hand is a navigation action
NavKeys == {"Up", "k", "Down", "j", "PageUp", "PageDown", "Home", "End"}
IsNavigation ==
    \/ msg.kind = "key" /\ msg.code \in NavKeys
    \/ msg.kind = "mouse" /\ msg.code \in {"ScrollUp", "ScrollDown"}

\* The cursors of the command lists of all containers
CommandCursors == [i \in 1..Len(containers) |-> containers[i].cmd]

\* The lists without their cursors
ListItems == <<[i \in 1..Len(containers) |-> <<containers[i].id, containers[i].st>>],
               log_len>>

\* C30: in Normal mode a navigation action moves only the cursor of the list
\* of the selected panel: the other lists' cursors, the lists' items, the
\* selected panel and the sort stay as they are; Tab / BackTab change the
\* selected panel and nothing else.
C30_NavigationMovesOnlyTheSelectedList ==
    [][/\ (HandlerStep /\ InNormalMode /\ IsNavigation)
             => /\ UNCHANGED <<selected_panel, sorted_by, ListItems, show_error, error,
                               show_help, info_box, is_running, mouse_capture,
                               timerVars, chanVars>>
                /\ selected_panel # "Containers" => UNCHANGED cont_sel
                /\ selected_panel # "Logs" => UNCHANGED log_sel
                /\ selected_panel # "Commands" => UNCHANGED CommandCursors
                /\ selected_panel = "Commands"
                      => \A i \in 1..Len(containers) :
                            i # cont_sel => containers'[i].cmd = containers[i].cmd
       /\ (HandlerStep /\ InNormalMode /\ msg.kind = "key"
             /\ msg.code \in {"Tab", "BackTab"})
             => /\ UNCHANGED <<appVars, show_help, info_box, info_by, is_running,
                               mouse_capture, timerVars, chanVars>>
                /\ pc = "button_press"
                      => selected_panel' = IF msg.code = "Tab"
                                           THEN next_panel(selected_panel)
                                           ELSE previous_panel(selected_panel)]_vars

\* End has been handled on the log view after BackTab selected it: the cursor
\* of the log view is on the last line, the container list's where it was
C30_Witness ==
    /\ pc = "done"
    /\ msg = KeyMsg("End")
    /\ InNormalMode
    /\ selected_panel = "Logs"
    /\ log_len = 3
    /\ log_sel = 3
    /\ nav_from[2] = 1
    /\ cont_sel = 1

\* Positions of Ui inside err_loop and inside gui_loop
ErrPcs == {"err_check", "err_draw"}
MainPcs == {"loop_check", "fd_lock", "fd_copy", "exec_mode", "exec_run", "session",
            "exec_error", "exec_after", "exec_init", "exec_del", "draw", "draw_delete",
            "draw_delete_confirm", "draw_delete_clear", "draw_flush", "poll",
            "forward", "resize"}

\* C24: when the status read of draw_ui finds the connection error, gui_loop
\* is never entered (no frame of the dashboard is drawn, no event polled, no
\* message forwarded); when it does not, err_loop is never entered.
C24_ErrorLoopOrMainLoop ==
    /\ [][(ui.pc = "draw_ui" /\ ui'.pc # "draw_ui")
             => /\ status_connect => (ui'.status = "DockerConnect" /\ ui'.pc = "err_check")
                /\ ~status_connect => (ui'.status = "Ok" /\ ui'.pc = "loop_check")]_vars
    /\ [](ui.status = "DockerConnect"
             => /\ ui.pc \notin MainPcs
                /\ area_map = "empty"
                /\ ui.polled = NoEvent
                /\ ui.ev = NoMsg
                /\ input_chan = <<>>)
    /\ [](ui.status = "Ok" => (ui.pc \notin ErrPcs /\ ui.drawn = <<>> /\ ui.seconds = 0))
    /\ [](ui.status = None => (ui.pc \notin ErrPcs \cup MainPcs /\ ui.drawn = <<>>))

\* The error loop has run to its end although the running flag is set
C24_Witness ==
    /\ ui.status = "DockerConnect"
    /\ ui.pc = "ended"
    /\ ui.exit = "error_shown"
    /\ is_running

\* C23: err_loop shows a countdown that takes only the values 5, 4, 3, 2, 1,
\* never increasing, one lower with every second elapsed, and returns five
\* seconds after the construction of Ui; a failed draw ends it at once with
\* the terminal error, and reset_terminal is still invoked.
C23_ErrorLoopCountdown ==
    /\ [](\A i \in 1..Len(ui.drawn) :
             /\ ui.drawn[i] \in 1..ErrSeconds
             /\ i < Len(ui.drawn) => ui.drawn[i + 1] = ui.drawn[i] - 1)
    /\ [](ui.pc \in ErrPcs => (ui.seconds \in 1..ErrSeconds
                                 /\ ui.seconds = ErrSeconds - ui.now))
    /\ [][(ui.pc = "err_check" /\ ui'.seconds # ui.seconds)
             => /\ ui'.seconds = ui.seconds - 1
                /\ now - ui.now = 1
                /\ ui'.now = now]_vars
    /\ [][(ui.pc = "err_check" /\ ui'.pc = "err_draw" /\ ui'.seconds = ui.seconds)
             => now - ui.now < 1]_vars
    /\ [][(ui.pc \in ErrPcs /\ ui'.pc \notin ErrPcs)
             => /\ ui'.pc = "reset_clear" /\ ui'.ret = "ended"
                /\ ui.pc = "err_check" => (ui'.exit = "error_shown" /\ now = ErrSeconds)
                /\ ui.pc = "err_draw" => ui'.exit = "draw_error"]_vars
    /\ []((ui.pc = "ended" /\ ui.status = "DockerConnect") => ui.resets = 1)

\* The error loop has shown the whole countdown and Ui::start has ended
C23_Witness ==
    /\ ui.pc = "ended"
    /\ ui.exit = "error_shown"
    /\ ui.drawn = <<5, 4, 3, 2, 1>>
    /\ now = ErrSeconds
    /\ ui.resets = 1

\* A draw of the error loop failed at the third value and the terminal has been reset
C23_WitnessDrawFails ==
    /\ ui.pc = "ended"
    /\ ui.exit = "draw_error"
    /\ ui.drawn = <<5, 4>>
    /\ ui.seconds = 3
    /\ ui.reset_ops = ResetOps

\* C28: the frame description is one joint snapshot of both stores: the
\* snapshot step holds both guards, no store changes while it does, and the
\* description it produces equals the stores' contents at that one moment
SnapshotHeld == ui.pc = "fd_copy"

C28_FrameIsJointSnapshot ==
    [][/\ SnapshotHeld => ui.locks = {"app", "gui"}
       /\ SnapshotHeld => /\ UNCHANGED <<appVars, guiVars, overlayVars>>
                          /\ ui'.pc # "fd_copy" => ui'.fd = FrameData]_vars

\* a frame was described after the handler changed both the sort order (app
\* store) and the selected panel (interface store)
C28_Witness ==
    /\ ui.pc = "draw"
    /\ ui.fd.sorted_by # NoSort
    /\ ui.fd.selected_panel # "Containers"
    /\ ui.fd = FrameData

\* The part of an iteration of gui_loop the render loop is in: the test of
\* the running flag, the snapshot, the exec hand-off (with its calls of
\* reset_terminal and init_terminal), the draw, the poll with the read, and
\* the handling of the event read; "exit" past the loop and "start" before it
ExecPcs == {"exec_mode", "exec_run", "session", "exec_error", "exec_after",
            "exec_init", "exec_del"}

Phase(u) ==
    IF u.pc = "loop_check" THEN "check"
    ELSE IF u.pc \in {"fd_lock", "fd_copy"} THEN "snapshot"
    ELSE IF u.pc \in ExecPcs THEN "exec"
    ELSE IF u.pc \in {"draw", "draw_delete", "draw_delete_confirm",
                      "draw_delete_clear", "draw_flush"} THEN "draw"
    ELSE IF u.pc = "poll" THEN "poll"
    ELSE IF u.pc \in {"forward", "resize"} THEN "input"
    ELSE IF u.pc = "ended" THEN "exit"
    ELSE IF u.pc \in {"reset_clear", "reset_leave", "reset_raw", "reset_cursor",
                      "reset_show"}
         THEN (IF u.ret \in ExecPcs THEN "exec" ELSE "exit")
    ELSE IF u.pc \in {"init_raw", "init_alt", "init_mouse"} /\ u.ret \in ExecPcs
         THEN "exec"
    ELSE "start"

\* C29: the order within an iteration is fixed: after the test of the flag
\* the snapshot, then the exec hand-off exactly when the snapshot shows the
\* Exec status, then the one draw of that snapshot, then the poll, then the
\* handling of at most one event; a failed draw leaves the loop without a poll
C29_IterationOrder ==
    [][/\ Phase(ui) = "check" => Phase(ui') \in {"check", "snapshot", "exit"}
       /\ Phase(ui) = "snapshot" =>
             \/ Phase(ui') = "snapshot"
             \/ Phase(ui') = "exec" /\ ui'.fd.exec
             \/ Phase(ui') = "draw" /\ ~ui'.fd.exec
       /\ Phase(ui) = "exec" => Phase(ui') \in {"exec", "draw"}
       /\ Phase(ui) = "draw" =>
             \/ Phase(ui') = "draw"
             \/ Phase(ui') = "poll" /\ ui.pc = "draw_flush"
             \/ Phase(ui') = "exit" /\ ui.pc = "draw_flush" /\ ui'.exit = "draw_error"
       /\ Phase(ui) = "poll" => Phase(ui') \in {"poll", "input", "check"}
       /\ Phase(ui) = "input" => Phase(ui') \in {"input", "check"}
       /\ Phase(ui) = "exit" => Phase(ui') = "exit"
       /\ Phase(ui) \in {"exec", "draw"} => ui'.fd = ui.fd
       /\ Phase(ui') = "input" => Phase(ui) = "poll" \/ ui' = ui
       /\ Phase(ui') = "poll" => ui.pc = "draw_flush" \/ ui' = ui
       /\ Phase(ui') \in {"poll", "input"} => ui'.drew = "ok"
       /\ ui'.drew = "err" => Phase(ui') = "exit"]_vars

\* an iteration with the exec hand-off has drawn its frame and reached the
\* poll, and another has ended at a failed draw
C29_Witness ==
    /\ ui.pc = "poll"
    /\ ui.fd.exec
    /\ ui.sessions >= 1

C29_WitnessDrawFails ==
    /\ ui.pc = "ended"
    /\ ui.drew = "err"
    /\ input_chan # <<>>

\* C25: an iteration forwards at most one message, and it forwards exactly
\* when the event read is a key press or a mouse button-down, scroll-up or
\* scroll-down; every other event is dropped, and a resize forwards nothing
\* and empties the cached region map
Forwardable(e) ==
    \/ e.kind = "key" /\ e.sub = "Press"
    \/ e.kind = "mouse" /\ e.code \in {"DownLeft", "DownRight", "DownMiddle",
                                       "ScrollUp", "ScrollDown"}

C25_ForwardsAtMostOneQualifyingEvent ==
    [][/\ ui.pc = "poll" /\ ui'.pc # "poll" =>
             /\ ui'.pc = "forward" <=> Forwardable(ui'.polled)
             /\ ui'.pc = "resize" <=> ui'.polled.kind = "resize"
             /\ ui'.pc \in {"forward", "resize", "loop_check"}
             /\ ui'.pc = "forward" => ui'.ev = MessageOf(ui'.polled)
       /\ Len(input_chan') > Len(input_chan) =>
             /\ ui.pc = "forward" /\ ui'.pc = "loop_check"
             /\ Forwardable(ui.polled)
             /\ input_chan' = Append(input_chan, MessageOf(ui.polled))
       /\ ui.pc = "resize" /\ ui'.pc # "resize" =>
             /\ area_map' = "empty"
             /\ ui'.pc = "loop_check"
             /\ input_chan' = input_chan]_vars

\* a key press was forwarded, and a resize emptied the region map the draw
\* had cached
C25_Witness ==
    /\ ui.pc = "loop_check"
    /\ area_map = "empty"
    /\ input_chan # <<>>
    /\ Head(input_chan).kind = "key"
    /\ ui.resets = 0
    /\ ui.drew = "ok"

\* C22: the handling of a 'q' key press clears the running flag whichever
\* branch of button_press takes it (error, help or normal), and no step of
\* either loop sets a cleared flag again
QuitHandled == pc = "button_press" /\ msg = KeyMsg("q") /\ pc' # pc

C22_QuitClearsFlagForGood ==
    [][/\ QuitHandled => ~is_running'
       /\ ~is_running => ~is_running']_vars

\* 'q' was handled by the error branch, by the help branch, by the normal
\* branch
C22_Witness ==
    /\ pc = "done" /\ msg = KeyMsg("q")
    /\ loc_show_error
    /\ ~is_running

C22_WitnessHelp ==
    /\ pc = "done" /\ msg = KeyMsg("q")
    /\ ~loc_show_error /\ loc_show_info
    /\ ~is_running

C22_WitnessNormal ==
    /\ pc = "done" /\ msg = KeyMsg("q")
    /\ ~loc_show_error /\ ~loc_show_info
    /\ ~is_running

\* The terminal as it was before oxker took it over
TerminalRestored == ~term.raw /\ ~term.alt /\ term.mouse = "off"

\* A step of either loop that needs nothing from the terminal's user: any step
\* of the render loop (at the poll: the poll rate passing without an event),
\* any step of the handler, and the driver taking a command or dropping its
\* receiver
LoopCanStep ==
    \/ ui.pc = "poll"
    \/ ENABLED (\/ InitRaw \/ InitAlt \/ InitMouse \/ TermNew \/ DrawUi
                \/ ErrCheck \/ ErrDraw \/ Second \/ LoopCheck \/ FdLock \/ FdCopy
                \/ Draw \/ DrawFlush \/ Forward
                \/ ResetClear \/ ResetLeave \/ ResetRaw \/ ResetCursor \/ ResetShow
                \/ RecvQueued \/ RecvClosed \/ ReadError \/ ReadHelp \/ ButtonPress
                \/ EnterCommand \/ EnterId \/ Send \/ CheckRunning
                \/ DriverRecv \/ DriverDrop)

BothLoopsEnded == ui.pc = "ended" /\ pc = "stopped"

\* once the flag is cleared, a loop that has not ended can take a step without
\* further input
C21_NoLoopWaitsForInput ==
    ~is_running => BothLoopsEnded \/ LoopCanStep

\* C21: once the running flag is cleared, both loops end without further
\* input, and the render loop, leaving its main loop at the next test of the
\* flag, leaves the terminal restored
C21_LoopsEndAndTerminalRestored ==
    ~is_running =>
        /\ BothLoopsEnded \/ LoopCanStep
        /\ ui.pc = "ended" /\ ui.exit = "quit" => TerminalRestored

\* both loops have ended after the flag was cleared from outside
C21_WitnessEnded ==
    /\ ~is_running
    /\ BothLoopsEnded
    /\ ui.exit = "quit"
    /\ msg = NoMsg /\ handled = 0

\* C31: the handler takes the messages one at a time from the head of the
\* channel, to which they are added at the tail; with the flag cleared it
\* takes a message only if it is waiting for one, and after a message handled
\* with the flag cleared it stops for good, whatever is still queued
HandlerReceives == pc = "recv" /\ pc' = "read_error"

C31_WitnessOneFurther ==
    /\ pc = "stopped"
    /\ ~is_running
    /\ handled = 1
    /\ selected_panel # "Containers"

\* C32: drawing a frame whose snapshot holds a delete-confirmation target
\* looks the target up among the containers: when it is not found the target
\* is cleared and no dialog is drawn, when it is found the dialog is drawn
\* and the target is left as it is; without a target neither happens
C32_DeleteConfirmClearedWhenStale ==
    [][/\ ui.pc = "draw" /\ ui'.pc # "draw" =>
             /\ ui'.pc = (IF ui.fd.delete_confirm # NoId THEN "draw_delete"
                                                         ELSE "draw_flush")
             /\ delete_container' = delete_container
       /\ ui.pc = "draw_delete" /\ ui'.pc # "draw_delete" =>
             /\ ui'.pc = (IF NameById(ui.fd.delete_confirm)
                          THEN "draw_delete_confirm" ELSE "draw_delete_clear")
             /\ delete_container' = delete_container
       /\ ui.pc = "draw_delete_clear" =>
             /\ UNCHANGED containers
             /\ ~NameById(ui.fd.delete_confirm)
             /\ ui'.pc # "draw_delete_clear" =>
                   ui'.pc = "draw_flush" /\ delete_container' = NoId
       /\ ui.pc = "draw_delete_confirm" =>
             /\ UNCHANGED containers
             /\ NameById(ui.fd.delete_confirm)
             /\ delete_container' = delete_container
             /\ ui'.pc \in {"draw_delete_confirm", "draw_flush"}
       /\ ui'.pc = "draw_delete_confirm" => ui.pc \in {"draw_delete", "draw_delete_confirm"}
       /\ ui'.pc = "draw_delete_clear" => ui.pc \in {"draw_delete", "draw_delete_clear"}]_vars

\* a frame was drawn from a snapshot with a target that named no container
\* any more, and the target is cleared
C32_Witness ==
    /\ ui.pc = "draw_flush"
    /\ ui.fd.delete_confirm # NoId
    /\ ~NameById(ui.fd.delete_confirm)
    /\ delete_container = NoId

\* a frame was drawn with the dialog for a listed container
C32_WitnessDialog ==
    /\ ui.pc = "draw_flush"
    /\ ui.fd.delete_confirm # NoId
    /\ NameById(ui.fd.delete_confirm)
    /\ delete_container = ui.fd.delete_confirm

\* C33: the popup lists the built-in keys exactly when the keymap in use is
\* the default one, and otherwise the custom listing under its heading; the
\* name, the description and the footer are the same for every keymap
HelpShown == ui.help # NoHelp

C33_BuiltInListingIffDefaultKeymap ==
    HelpShown =>
        /\ ui.help.buttons = gen_keymap_info <=> ui.keymap = DefaultKeymap
        /\ ui.keymap # DefaultKeymap =>
              /\ ui.help.buttons = gen_custom_keymap_info(ui.keymap)
              /\ Head(ui.help.buttons) = <<button_item("Custom keymap config in use")>>
        /\ ui.help.name = help_draw(DefaultKeymap).name
        /\ ui.help.description = help_draw(DefaultKeymap).description
        /\ ui.help.final = help_draw(DefaultKeymap).final
        /\ ui.help.title = help_draw(DefaultKeymap).title

\* the popup is shown for a keymap that differs from the default one only in
\* a key the listing does not show
C33_Witness ==
    /\ HelpShown
    /\ ui.keymap # DefaultKeymap
    /\ \A f \in KeymapFields \ {"delete_confirm"} : ui.keymap[f] = DefaultKeymap[f]
    /\ Head(ui.help.buttons) = CustomHeader

\* the popup is shown for the default keymap
C33_WitnessDefault ==
    /\ HelpShown
    /\ ui.keymap = DefaultKeymap
    /\ ui.help.buttons = gen_keymap_info

\* The actions of the custom listing with their descriptions, in the order of
\* the lines below the heading (the fixed line of the enter key left out)
ListedActions ==
    << <<"select_next_panel", "select next panel">>,
       <<"select_previous_panel", "select previous panel">>,
       <<"scroll_down_one", "scroll list down by one">>,
       <<"scroll_up_one", "scroll list up by one">>,
       <<"scroll_down_many", "scroll list down by many">>,
       <<"scroll_up_many", "scroll list by up many">>,
       <<"scroll_end", "scroll list to end">>,
       <<"scroll_start", "scroll list to start">>,
       <<"exec", "exec into a container">>,
       <<"toggle_help", "toggle this help information - or click heading">>,
       <<"save_logs", "save logs to file">>,
       <<"toggle_mouse_capture",
         "toggle mouse capture - if disabled, text on screen can be selected & copied">>,
       <<"filter_mode", "enter filter mode">>,
       <<"sort_reset", "reset container sorting">>,
       <<"sort_by_name", "sort containers by name">>,
       <<"sort_by_state", "sort containers by state">>,
       <<"sort_by_status", "sort containers by status">>,
       <<"sort_by_cpu", "sort containers by cpu">>,
       <<"sort_by_memory", "sort containers by memory">>,
       <<"sort_by_id", "sort containers by id">>,
       <<"sort_by_image", "sort containers by image">>,
       <<"sort_by_rx", "sort containers by rx">>,
       <<"sort_by_tx", "sort containers by tx">>,
       <<"clear", "close dialog">>,
       <<"quit", "quit at any time">> >>

\* The line of the listing that ends with the description d
LineOf(buttons, d) ==
    CHOOSE l \in {buttons[i] : i \in 1..Len(buttons)} : l[Len(l)] = button_desc(d)

\* The line shows the keys of the binding b: the primary key, and "or" with
\* the secondary key exactly when there is one
ShowsBinding(l, b) ==
    /\ l[2] = button_item(KeyName(b[1]))
    /\ IF b[2] = None
       THEN Len(l) = 3 /\ \A j \in 1..Len(l) : l[j] # or
       ELSE Len(l) = 5 /\ l[3] = or /\ l[4] = button_item(KeyName(b[2]))

CustomShown == HelpShown /\ ui.keymap # DefaultKeymap

\* C34: in the custom listing the line of every listed action shows the keys
\* the keymap binds to that action, with "or" exactly when the action has a
\* secondary key, and then the description of the action
C34_CustomListingShowsEachActionsKeys ==
    CustomShown =>
        \A i \in 1..Len(ListedActions) :
            ShowsBinding(LineOf(ui.help.buttons, ListedActions[i][2]),
                         ui.keymap[ListedActions[i][1]])

\* the same for every listed action but the saving of the logs
C34_AllLinesButSaveLogs ==
    CustomShown =>
        \A i \in 1..Len(ListedActions) :
            ListedActions[i][1] # "save_logs" =>
                ShowsBinding(LineOf(ui.help.buttons, ListedActions[i][2]),
                             ui.keymap[ListedActions[i][1]])

\* the line of the saving of the logs shows the keys of the help toggle
C34_SaveLogsLineShowsHelpKeys ==
    CustomShown =>
        ShowsBinding(LineOf(ui.help.buttons, "save logs to file"), ui.keymap.toggle_help)

C34_WitnessSaveLogs ==
    /\ CustomShown
    /\ ui.keymap.save_logs # ui.keymap.toggle_help
    /\ ui.keymap.save_logs[2] # None
    /\ ui.keymap.toggle_help[2] = None

\* The lock the handler's next step has to take, and the lock the render
\* loop's next step has to take (None: no lock)
HandlerWants ==
    CASE pc = "read_error" -> "app"
      [] pc = "read_help" -> "gui"
      [] pc = "button_press" /\ loc_show_error /\ msg.code = "c" -> "app"
      [] pc = "button_press" /\ ~loc_show_error /\ ~loc_show_info -> "app"
      [] pc = "nav_gui" -> "gui"
      [] OTHER -> None

UiWants ==
    CASE ui.pc = "fd_lock" -> FdOrder[1]
      [] ui.pc = "fd_lock_second" -> FdOrder[2]
      [] ui.pc \in {"exec_error", "draw_delete"} -> "app"
      [] ui.pc \in {"exec_set_error", "exec_mode", "exec_del", "draw",
                    "draw_delete_clear", "resize"} -> "gui"
      [] OTHER -> None

\* Each of the two waits for a lock the other holds
LockDeadlock ==
    /\ HandlerWants \in ui.locks
    /\ UiWants \in HandlerLocks

\* C35: the handler and the render loop never wait for each other's lock:
\* whoever holds both locks took that of the application store first, and
\* nobody takes the application store's lock while holding the other one
C35_LockOrderAppBeforeGui ==
    /\ ~LockDeadlock
    /\ ui.locks # {"gui"}
    /\ HandlerLocks # {"gui"}
    /\ ui.locks \cap HandlerLocks = {}

\* the handler holds the application store's lock in a navigation key, and
\* the snapshot of the render loop waits for it
C35_Witness ==
    /\ pc = "nav_gui"
    /\ ui.pc = "fd_lock"
    /\ ~ENABLED FdLockFirst

\* the render loop holds both locks and the handler waits for the first
C35_WitnessHandlerWaits ==
    /\ ui.locks = {"app", "gui"}
    /\ pc = "button_press" /\ ~loc_show_error /\ ~loc_show_info
    /\ ~ENABLED ButtonPressNav

\* The dashboard owns the terminal: the render loop is in its main loop and
\* outside the exec hand-off; and the handler is not in the middle of a toggle
OwnsTerminal == Phase(ui) \in {"check", "snapshot", "draw", "poll", "input"}

ToggleInProgress == pc \in {"m_abort", "m_spawn", "m_flip"}

\* C36: while the dashboard owns the terminal, the handler's mouse_capture
\* flag says whether the terminal captures the mouse, whatever toggles and
\* exec hand-offs came before
C36_FlagMatchesTerminal ==
    OwnsTerminal /\ ~ToggleInProgress => (mouse_capture <=> term.mouse # "off")

\* the same as long as no toggle has failed, no exec hand-off has been made
\* and the terminal was set up in full
C36_FlagMatchesWithoutFailureAndExec ==
    /\ OwnsTerminal /\ ~ToggleInProgress
    /\ ui.execs = 0
    /\ \A i \in 1..Len(toggle_log) : toggle_log[i].ok
    => (mouse_capture <=> term.mouse # "off")

\* capture was switched off with the 'm' key, and an exec hand-off has
\* switched it on again behind the handler's flag
C36_WitnessAfterExec ==
    /\ OwnsTerminal /\ ~ToggleInProgress
    /\ ui.execs = 1
    /\ Len(toggle_log) = 1 /\ toggle_log[1].ok
    /\ ~mouse_capture
    /\ term.mouse # "off"

\* a failed toggle has flipped the flag and left the terminal as it was
C36_WitnessFailedToggle ==
    /\ OwnsTerminal /\ ~ToggleInProgress
    /\ ui.execs = 0
    /\ Len(toggle_log) = 1 /\ ~toggle_log[1].ok
    /\ ~mouse_capture
    /\ term.mouse # "off"

\* The commands a container offers: those of the state it is in
CommandsOfId(id) ==
    {ControlsOf(PairState(id))[i] : i \in 1..Len(ControlsOf(PairState(id)))}

\* C37: the command about to be sent, and every command sent, is one that
\* the container whose id it carries offers: command and id are those of
\* one selected container
C37_CommandAndIdOfOneContainer ==
    /\ pc = "send" => option_command \in CommandsOfId(option_id)
    /\ \A i \in 1..Len(docker_chan) :
          \E command \in CommandsOfId(docker_chan[i][2]) :
             docker_chan[i] = DockerMessage(command, docker_chan[i][2])

\* the command was read from the running container and the id, after the
\* driver found that container gone, from the exited one
C37_WitnessMixed ==
    /\ docker_chan # <<>>
    /\ docker_chan[1] = DockerMessage("Pause", 2)

\* with no update of the containers, a command is sent with the id of its
\* own container
C37_WitnessSame ==
    /\ docker_chan # <<>>
    /\ Len(containers) = 2
    /\ docker_chan[1] = DockerMessage("Start", 2)

\* A step of the handling of 'c' in Error mode: its two statements
ClearStep ==
    \/ pc = "button_press" /\ pc' = "clear_remove"
    \/ pc = "clear_remove" /\ pc' = "done"

NoLockHeld == ui.locks = {} /\ HandlerLocks = {}

ErrorConsistent == show_error <=> error # None

\* C38: the handling of 'c' in Error mode ends with the error flag false and
\* no error stored; whenever no lock is held the flag is set if and only if
\* an error is stored; and the clear leaves the help flag, the selected
\* panel and the sort as they were
C38_ClearLeavesErrorStateConsistent ==
    [][/\ pc = "clear_remove" /\ pc' = "done" => ~show_error' /\ error' = None
       /\ NoLockHeld' => ErrorConsistent'
       /\ ClearStep => UNCHANGED <<show_help, selected_panel, sorted_by>>]_vars

\* the part of it that the two statements do keep: the other fields of the
\* stores, and the error itself when the driver records none meanwhile
C38_ClearLeavesOtherFields ==
    [][/\ ClearStep => UNCHANGED <<show_help, selected_panel, sorted_by>>
       /\ pc = "clear_remove" /\ pc' = "done" => error' = None
       /\ pc = "clear_remove" /\ pc' = "done" /\ ~show_error => ~show_error']_vars

\* between the two statements: the flag is down and the error still stored
C38_WitnessBetween ==
    /\ pc = "clear_remove"
    /\ NoLockHeld
    /\ ~show_error
    /\ error # None

\* the driver recorded an error between the two statements, and the second
\* statement removed it: the flag is up with no error stored
C38_WitnessFlagWithoutError ==
    /\ pc = "done"
    /\ msg.code = "c"
    /\ NoLockHeld
    /\ show_error
    /\ error = None

\* Ui::start has returned
UiReturned == ui.pc = "ended"

\* C39: when the render loop has stopped after a quit, after a failed draw or
\* after the countdown of the error loop, and Ui::start has returned, the
\* running flag is false
C39_FlagClearedWhenUiStops ==
    UiReturned /\ ui.exit \in {"quit", "draw_error", "error_shown"} => ~is_running

\* the case of it that holds: the main loop left through its test of the flag
C39_FlagClearedAfterQuit ==
    UiReturned /\ ui.exit = "quit" => ~is_running

\* Ui::start has returned after a failed draw with the flag still set, and
\* the handler waits for its next message
C39_WitnessDrawFailure ==
    /\ UiReturned
    /\ ui.exit = "draw_error"
    /\ is_running
    /\ pc = "recv"

\* Ui::start has returned after the countdown with the flag still set
C39_WitnessCountdown ==
    /\ UiReturned
    /\ ui.exit = "error_shown"
    /\ is_running

\* Ui::start has returned after a quit
C39_WitnessQuit ==
    /\ UiReturned
    /\ ui.exit = "quit"
    /\ handled > 0

\* Ui::start has returned through its else branch: setup_terminal failed
SetupFailed == UiReturned /\ ui.exit = "setup_error"

\* C40: when the setup of the terminal fails, Ui::start returns with every
\* mode that the setup had enabled undone: raw mode off, the alternate
\* screen left, mouse capture off
C40_SetupFailureUndoesModes ==
    SetupFailed => ~term.raw /\ ~term.alt /\ term.mouse = "off"

\* the failure that leaves nothing to undo: enable_raw_mode itself failed
C40_WitnessNothingEnabled ==
    /\ SetupFailed
    /\ ~term.raw

\* Terminal::new failed after init_terminal had enabled all three modes
C40_WitnessAllEnabled ==
    /\ SetupFailed
    /\ term.raw
    /\ term.alt
    /\ term.mouse = "restricted"
    /\ ui.resets = 0

\* entering the alternate screen failed with raw mode enabled
C40_WitnessRawOnly ==
    /\ SetupFailed
    /\ term.raw
    /\ ~term.alt
    /\ ui.reset_ops = <<>>

====
